---- MODULE Spec2Model ----
(***************************************************************************)
(* Model of the counselling agent gateway (server/counselor.ts and the     *)
(* Express route of server/index.ts):                                      *)
(*   - the short-term session store (getSession / addToSession),           *)
(*   - the file-backed memory handlers (FileSystemMemoryHandlers),         *)
(*   - the turn driver streamCounselorResponse with the SSE callbacks.     *)
(*                                                                         *)
(* A JavaScript string is modelled as a sequence of one-character strings, *)
(* so that startsWith, slice, split, replace and trim are computed         *)
(* character by character as the code computes them.                       *)
(***************************************************************************)
EXTENDS Integers, Sequences, FiniteSets, TLC

\* ------------------------------------------------------------------------
\* Bounds of the model
\* ------------------------------------------------------------------------

\* longest free-form tail appended to '/memories' when paths are enumerated
MaxTail == 1

\* longest file content a memory operation is allowed to produce
MaxContent == 5

\* ------------------------------------------------------------------------
\* JavaScript string primitives
\* ------------------------------------------------------------------------

\* s.startsWith(pre)
StartsWith(s, pre) == Len(s) >= Len(pre) /\ SubSeq(s, 1, Len(pre)) = pre

\* s.endsWith(suf)
EndsWith(s, suf) ==
  Len(s) >= Len(suf) /\ SubSeq(s, Len(s) - Len(suf) + 1, Len(s)) = suf

\* s.slice(n) for 0 <= n
Slice(s, n) == SubSeq(s, n + 1, Len(s))

\* s.indexOf(sub), 1-based; 0 when sub does not occur
IndexOf(s, sub) ==
  LET hits == {i \in 1..(Len(s) - Len(sub) + 1) : SubSeq(s, i, i + Len(sub) - 1) = sub}
  IN IF hits = {} THEN 0 ELSE CHOOSE i \in hits : \A j \in hits : i <= j

\* s.split(sep): for sep = '' the array of the characters of s, otherwise
\* the pieces between the successive non-overlapping occurrences of sep,
\* scanned left to right
RECURSIVE JsSplit(_, _)
JsSplit(s, sep) ==
  IF sep = <<>> THEN [i \in 1..Len(s) |-> <<s[i]>>]
  ELSE LET i == IndexOf(s, sep)
       IN IF i = 0 THEN <<s>>
          ELSE <<SubSeq(s, 1, i - 1)>> \o JsSplit(Slice(s, i - 1 + Len(sep)), sep)

\* parts.join(sep)
RECURSIVE JsJoin(_, _)
JsJoin(parts, sep) ==
  IF parts = <<>> THEN <<>>
  ELSE IF Len(parts) = 1 THEN parts[1]
  ELSE parts[1] \o sep \o JsJoin(Tail(parts), sep)

\* ------------------------------------------------------------------------
\* node:path (POSIX)
\* ------------------------------------------------------------------------

\* normalizeString: drop empty and '.' segments, let '..' pop a segment;
\* above the root of an absolute path '..' is dropped
RECURSIVE NormalizeSegs(_, _)
NormalizeSegs(segs, acc) ==
  IF segs = <<>> THEN acc
  ELSE LET h == Head(segs)
       IN NormalizeSegs(Tail(segs),
            IF h = <<>> \/ h = <<".">> THEN acc
            ELSE IF h = <<".", ".">>
                 THEN (IF acc = <<>> THEN acc ELSE SubSeq(acc, 1, Len(acc) - 1))
                 ELSE Append(acc, h))

\* the segments of an absolute path, normalized
PathSegs(p) == NormalizeSegs(JsSplit(p, <<"/">>), <<>>)

\* an absolute path from its segments
RenderAbs(segs) == IF segs = <<>> THEN <<"/">> ELSE <<"/">> \o JsJoin(segs, <<"/">>)

\* path.normalize of an absolute path: a trailing separator is kept
PathNormalize(p) ==
  LET segs == PathSegs(p)
  IN IF segs = <<>> THEN <<"/">>
     ELSE RenderAbs(segs) \o (IF EndsWith(p, <<"/">>) THEN <<"/">> ELSE <<>>)

\* path.join(a, b) for an absolute a and a non-empty b
PathJoin(a, b) == PathNormalize(a \o <<"/">> \o b)

\* path.resolve(p) for an absolute p: normalized, no trailing separator
PathResolve(p) == RenderAbs(PathSegs(p))

\* path.dirname(p) for a resolved absolute path
PathDirname(p) ==
  LET segs == PathSegs(p)
  IN IF segs = <<>> THEN <<"/">> ELSE RenderAbs(SubSeq(segs, 1, Len(segs) - 1))

\* path.sep
PathSep == <<"/">>

\* ------------------------------------------------------------------------
\* The disk: node:fs on a POSIX file system
\*
\* disk maps the canonical absolute path of every existing node to
\* [kind |-> "dir" | "file" | "link", data |-> content or link target].
\* A link's target is the canonical path of a node that is not a link.
\* ------------------------------------------------------------------------

DirNode == [kind |-> "dir", data |-> <<>>]
FileNode(text) == [kind |-> "file", data |-> text]
LinkNode(target) == [kind |-> "link", data |-> target]

\* the path of entry seg of directory cur
Child(cur, seg) == IF cur = <<"/">> THEN cur \o seg ELSE cur \o <<"/">> \o seg

\* p is dir or lies below dir
IsWithin(p, dir) == p = dir \/ dir = <<"/">> \/ StartsWith(p, dir \o <<"/">>)

\* the kernel's path walk: every component but the last must be a directory
\* or a link to one; the last one is dereferenced only when followLast.
\* Yields the canonical path the call acts on (it need not exist).
RECURSIVE Walk(_, _, _, _)
Walk(d, cur, segs, followLast) ==
  IF segs = <<>> THEN [err |-> "", path |-> cur]
  ELSE IF cur \notin DOMAIN d THEN [err |-> "ENOENT", path |-> cur]
  ELSE IF d[cur].kind # "dir" THEN [err |-> "ENOTDIR", path |-> cur]
  ELSE LET raw == Child(cur, Head(segs))
           deref == raw \in DOMAIN d /\ d[raw].kind = "link"
                    /\ (Len(segs) > 1 \/ followLast)
       IN Walk(d, IF deref THEN d[raw].data ELSE raw, Tail(segs), followLast)

Lookup(d, p, followLast) == Walk(d, <<"/">>, PathSegs(p), followLast)

\* fs.stat(p): follows links; fails when nothing is there
FsStat(d, p) ==
  LET w == Lookup(d, p, TRUE)
  IN IF w.err # "" THEN w
     ELSE IF w.path \notin DOMAIN d THEN [err |-> "ENOENT", path |-> w.path]
     ELSE w

\* existsSync(p)
ExistsSync(d, p) == FsStat(d, p).err = ""

\* fs.readFile(p, 'utf-8')
FsReadFile(d, p) ==
  LET st == FsStat(d, p)
  IN IF st.err # "" THEN [err |-> st.err, path |-> st.path, text |-> <<>>]
     ELSE IF d[st.path].kind = "dir"
          THEN [err |-> "EISDIR", path |-> st.path, text |-> <<>>]
          ELSE [err |-> "", path |-> st.path, text |-> d[st.path].data]

\* fs.writeFile(p, text, 'utf-8'): creates or truncates the file
FsWriteFile(d, p, text) ==
  LET w == Lookup(d, p, TRUE)
  IN IF w.err # "" THEN [err |-> w.err, path |-> w.path, disk |-> d]
     ELSE IF w.path \in DOMAIN d /\ d[w.path].kind = "dir"
          THEN [err |-> "EISDIR", path |-> w.path, disk |-> d]
          ELSE [err |-> "", path |-> w.path,
                disk |-> (w.path :> FileNode(text)) @@ d]

\* fs.mkdir(p, { recursive: true }): creates every missing directory of p;
\* fails when a component is a file
RECURSIVE MkdirWalk(_, _, _, _)
MkdirWalk(d, cur, segs, made) ==
  IF segs = <<>> THEN [err |-> "", path |-> cur, disk |-> d, made |-> made]
  ELSE LET raw == Child(cur, Head(segs))
       IN IF raw \notin DOMAIN d
          THEN MkdirWalk((raw :> DirNode) @@ d, raw, Tail(segs), made \cup {raw})
          ELSE LET next == IF d[raw].kind = "link" THEN d[raw].data ELSE raw
               IN IF next \in DOMAIN d /\ d[next].kind = "dir"
                  THEN MkdirWalk(d, next, Tail(segs), made)
                  ELSE [err |-> IF Len(segs) = 1 THEN "EEXIST" ELSE "ENOTDIR",
                        path |-> next, disk |-> d, made |-> made]

FsMkdirP(d, p) == MkdirWalk(d, <<"/">>, PathSegs(p), {})

\* the nodes at and below canonical path p
Subtree(d, p) == {q \in DOMAIN d : IsWithin(q, p)}

\* fs.rm(p, { recursive: true, force: true }): the last component is not
\* dereferenced; with force a missing path is no error
FsRm(d, p) ==
  LET w == Lookup(d, p, FALSE)
  IN IF w.err = "ENOENT" \/ (w.err = "" /\ w.path \notin DOMAIN d)
     THEN [err |-> "", path |-> w.path, disk |-> d, gone |-> {}]
     ELSE IF w.err # "" THEN [err |-> w.err, path |-> w.path, disk |-> d, gone |-> {}]
     ELSE LET gone == IF d[w.path].kind = "dir" THEN Subtree(d, w.path) ELSE {w.path}
          IN [err |-> "", path |-> w.path, gone |-> gone,
              disk |-> [q \in DOMAIN d \ gone |-> d[q]]]

\* fs.rename(from, to): neither last component is dereferenced; the parent
\* of the destination must exist, and a directory cannot move below itself
FsRename(d, from, to) ==
  LET wf == Lookup(d, from, FALSE)
      wt == Lookup(d, to, FALSE)
      none == [path |-> wf.path, to |-> wt.path, disk |-> d, moved |-> {}]
  IN IF wf.err # "" THEN [err |-> wf.err] @@ none
     ELSE IF wf.path \notin DOMAIN d THEN [err |-> "ENOENT"] @@ none
     ELSE IF wt.err # "" THEN [err |-> wt.err] @@ none
     ELSE IF wt.path = wf.path THEN [err |-> ""] @@ none
     ELSE IF IsWithin(wt.path, wf.path) \/ IsWithin(wf.path, wt.path)
          THEN [err |-> "EINVAL"] @@ none
     ELSE IF wt.path \in DOMAIN d /\ d[wt.path].kind # d[wf.path].kind
          THEN [err |-> IF d[wt.path].kind = "dir" THEN "EISDIR" ELSE "ENOTDIR"] @@ none
     ELSE IF wt.path \in DOMAIN d /\ d[wt.path].kind = "dir"
             /\ Subtree(d, wt.path) # {wt.path}
          THEN [err |-> "ENOTEMPTY"] @@ none
     ELSE LET moved == IF d[wf.path].kind = "dir" THEN Subtree(d, wf.path) ELSE {wf.path}
              Dest(q) == wt.path \o Slice(q, Len(wf.path))
              kept == (DOMAIN d \ moved) \ {wt.path}
          IN [err |-> "", path |-> wf.path, to |-> wt.path, moved |-> moved,
              disk |-> [q \in kept \cup {Dest(m) : m \in moved} |->
                          IF q \in kept THEN d[q]
                          ELSE d[CHOOSE m \in moved : Dest(m) = q]]]

\* ------------------------------------------------------------------------
\* FileSystemMemoryHandlers
\*
\* A handler maps the disk and a command to
\*   [res |-> its outcome, disk |-> the disk afterwards,
\*    io |-> the canonical paths its file-system calls acted on].
\* An outcome is [kind |-> "ok" | "soft" | "throw", tag, text, num, listing]:
\* "ok" and "soft" are returned strings (tag names the message, text / num /
\* listing carry what is interpolated into it), "throw" is a rejected promise.
\* ------------------------------------------------------------------------

\* the literal '/memories'
VirtualRoot == <<"/", "m", "e", "m", "o", "r", "i", "e", "s">>

\* path.resolve('./server/memories'), the process running in /
MEMORY_ROOT == <<"/", "s", "e", "r", "v", "e", "r">> \o VirtualRoot

Outcome(kind, tag, text, num, listing) ==
  [kind |-> kind, tag |-> tag, text |-> text, num |-> num, listing |-> listing]

Ok(tag) == Outcome("ok", tag, <<>>, 0, {})
Throw(tag) == Outcome("throw", tag, <<>>, 0, {})

Done(res, d, io) == [res |-> res, disk |-> d, io |-> io]

\* memPath.slice('/memories'.length).replace(/^[/\\]/, '')
StripLeadingSep(s) ==
  IF s # <<>> /\ s[1] \in {"/", "\\"} THEN Tail(s) ELSE s

\* resolveSafePath: [ok, path, tag]
ResolveSafePathNoSep(memPath) ==
  IF ~StartsWith(memPath, VirtualRoot)
  THEN [ok |-> FALSE, path |-> <<>>, tag |-> "not_memories"]
  ELSE LET relative == StripLeadingSep(Slice(memPath, Len(VirtualRoot)))
           full == IF relative # <<>> THEN PathJoin(MEMORY_ROOT, relative) ELSE MEMORY_ROOT
           resolved == PathResolve(full)
           resolvedRoot == PathResolve(MEMORY_ROOT)
       IN IF ~StartsWith(resolved, resolvedRoot)
          THEN [ok |-> FALSE, path |-> <<>>, tag |-> "traversal"]
          ELSE [ok |-> TRUE, path |-> resolved, tag |-> ""]

resolveSafePath(memPath) ==
  IF ~StartsWith(memPath, VirtualRoot)
  THEN [ok |-> FALSE, path |-> <<>>, tag |-> "not_memories"]
  ELSE LET relative == StripLeadingSep(Slice(memPath, Len(VirtualRoot)))
           full == IF relative # <<>> THEN PathJoin(MEMORY_ROOT, relative) ELSE MEMORY_ROOT
           resolved == PathResolve(full)
           resolvedRoot == PathResolve(MEMORY_ROOT)
       IN IF ~StartsWith(resolved, resolvedRoot \o PathSep) /\ resolved # resolvedRoot
          THEN [ok |-> FALSE, path |-> <<>>, tag |-> "traversal"]
          ELSE [ok |-> TRUE, path |-> resolved, tag |-> ""]

\* String(n) for a small integer
RECURSIVE NatToStr(_)
NatToStr(n) ==
  LET digit == <<"0", "1", "2", "3", "4", "5", "6", "7", "8", "9">>[(n % 10) + 1]
  IN IF n < 10 THEN <<digit>> ELSE NatToStr(n \div 10) \o <<digit>>

NumToStr(n) == IF n < 0 THEN <<"-">> \o NatToStr(0 - n) ELSE NatToStr(n)

\* s.padStart(width): blanks on the left up to width
PadStart(s, width) ==
  IF Len(s) >= width THEN s ELSE [i \in 1..(width - Len(s)) |-> " "] \o s

\* arr.slice(a, b): negative indices count from the end
JsArraySlice(arr, a, b) ==
  LET len == Len(arr)
      Clamp(i) == IF i < 0 THEN (IF len + i < 0 THEN 0 ELSE len + i)
                  ELSE (IF i > len THEN len ELSE i)
  IN SubSeq(arr, Clamp(a) + 1, Clamp(b))

\* the file branch of view numbering the shown lines from 1
ViewLinesRelative(content, range) ==
  LET lines == JsSplit(content, <<"\n">>)
      start == IF range.has THEN range.lo ELSE 1
      end == IF range.has /\ range.hi # -1 THEN range.hi ELSE Len(lines)
      shown == JsArraySlice(lines, start - 1, end)
  IN JsJoin([i \in 1..Len(shown) |->
               PadStart(NumToStr(i), 6) \o <<"\t">> \o shown[i]],
            <<"\n">>)

\* the file branch of view: view_range is [has, lo, hi], has = FALSE when
\* the command carries no range
ViewLines(content, range) ==
  LET lines == JsSplit(content, <<"\n">>)
      start == IF range.has THEN range.lo ELSE 1
      end == IF range.has /\ range.hi # -1 THEN range.hi ELSE Len(lines)
      shown == JsArraySlice(lines, start - 1, end)
  IN JsJoin([i \in 1..Len(shown) |->
               PadStart(NumToStr(start + i - 1), 6) \o <<"\t">> \o shown[i]],
            <<"\n">>)

\* readdir(dir): the names of the entries of the directory at canonical path dir
EntryNames(d, dir) ==
  {PathSegs(q)[Len(PathSegs(q))] : q \in {q \in DOMAIN d : q # dir /\ PathDirname(q) = dir}}

\* (stat.size / 1024).toFixed(1), in tenths of a K
SizeTenthsK(size) == (size * 20 + 1024) \div 2048

\* buildDirectoryListing: [err, lines, io]; one line per entry that is not
\* hidden, two levels deep; a directory entry that is a link is not descended
RECURSIVE ListingWalk(_, _, _, _)
ListingWalk(d, current, logical, depth) ==
  LET names == {n \in EntryNames(d, current) : n[1] # "."}
      One(n) ==
        LET childFull == Child(current, n)
            childLogical == logical \o <<"/">> \o n
            st == FsStat(d, childFull)
            size == IF d[st.path].kind = "file" THEN Len(d[st.path].data) ELSE 4096
            line == [size |-> SizeTenthsK(size), logical |-> childLogical]
            below == IF d[childFull].kind = "dir" /\ depth < 2
                     THEN ListingWalk(d, childFull, childLogical, depth + 1)
                     ELSE [err |-> "", lines |-> {}, io |-> {}]
        IN IF st.err # "" THEN [err |-> st.err, lines |-> {}, io |-> {st.path}]
           ELSE [err |-> below.err, lines |-> {line} \cup below.lines,
                 io |-> {st.path} \cup below.io]
  IN [err |-> IF \E n \in names : One(n).err # "" THEN "ENOENT" ELSE "",
      lines |-> UNION {One(n).lines : n \in names},
      io |-> {current} \cup UNION {One(n).io : n \in names}]

\* view(command): command = [path, range]
view(d, command) ==
  LET safe == resolveSafePath(command.path)
      st == FsStat(d, safe.path)
      missing == Outcome("soft", "not_exist", command.path, 0, {})
  IN IF ~safe.ok THEN Done(Throw(safe.tag), d, {})
     ELSE IF st.err # "" THEN Done(missing, d, {st.path})
     ELSE IF d[st.path].kind = "dir"
          THEN LET ls == ListingWalk(d, st.path, command.path, 1)
               IN IF ls.err # "" THEN Done(missing, d, {st.path} \cup ls.io)
                  ELSE Done(Outcome("ok", "listing", command.path, 0, ls.lines),
                            d, {st.path} \cup ls.io)
          ELSE Done(Outcome("ok", "lines", ViewLines(d[st.path].data, command.range), 0, {}),
                    d, {st.path})

\* create without the existence test of line 159
createOverwrite(d, command) ==
  LET safe == resolveSafePath(command.path)
      probe == FsStat(d, safe.path)
      dirs == FsMkdirP(d, PathDirname(safe.path))
      wr == FsWriteFile(dirs.disk, safe.path, command.file_text)
  IN IF ~safe.ok THEN Done(Throw(safe.tag), d, {})
     ELSE IF dirs.err # ""
          THEN Done(Throw(dirs.err), dirs.disk, {probe.path, dirs.path} \cup dirs.made)
     ELSE IF wr.err # ""
          THEN Done(Throw(wr.err), wr.disk, {probe.path, dirs.path, wr.path} \cup dirs.made)
     ELSE Done(Outcome("ok", "created", command.path, 0, {}), wr.disk,
               {probe.path, dirs.path, wr.path} \cup dirs.made)

\* create(command): command = [path, file_text]
create(d, command) ==
  LET safe == resolveSafePath(command.path)
      probe == FsStat(d, safe.path)
      dirs == FsMkdirP(d, PathDirname(safe.path))
      wr == FsWriteFile(dirs.disk, safe.path, command.file_text)
  IN IF ~safe.ok THEN Done(Throw(safe.tag), d, {})
     ELSE IF ExistsSync(d, safe.path)
          THEN Done(Outcome("soft", "already_exists", command.path, 0, {}), d, {probe.path})
     ELSE IF dirs.err # ""
          THEN Done(Throw(dirs.err), dirs.disk, {probe.path, dirs.path} \cup dirs.made)
     ELSE IF wr.err # ""
          THEN Done(Throw(wr.err), wr.disk, {probe.path, dirs.path, wr.path} \cup dirs.made)
     ELSE Done(Outcome("ok", "created", command.path, 0, {}), wr.disk,
               {probe.path, dirs.path, wr.path} \cup dirs.made)

\* the expansion of a replacement string of String.prototype.replace:
\* $$ is $, $& the match, $` the text before it, $' the text after it
RECURSIVE ExpandReplacement(_, _, _, _)
ExpandReplacement(repl, matched, before, after) ==
  IF repl = <<>> THEN <<>>
  ELSE IF repl[1] = "$" /\ Len(repl) >= 2 /\ repl[2] \in {"$", "&", "`", "'"}
       THEN (CASE repl[2] = "$" -> <<"$">>
               [] repl[2] = "&" -> matched
               [] repl[2] = "`" -> before
               [] repl[2] = "'" -> after)
            \o ExpandReplacement(Slice(repl, 2), matched, before, after)
       ELSE <<repl[1]>> \o ExpandReplacement(Tail(repl), matched, before, after)

\* content.replace(old, new) with a string pattern: the first occurrence only
JsReplace(content, old, new) ==
  LET i == IndexOf(content, old)
      before == SubSeq(content, 1, i - 1)
      after == Slice(content, i - 1 + Len(old))
  IN IF i = 0 THEN content
     ELSE before \o ExpandReplacement(new, old, before, after) \o after

\* str_replace(command): command = [path, old_str, new_str]
str_replace(d, command) ==
  LET safe == resolveSafePath(command.path)
      rd == FsReadFile(d, safe.path)
      count == Len(JsSplit(rd.text, command.old_str)) - 1
      newContent == JsReplace(rd.text, command.old_str, command.new_str)
      wr == FsWriteFile(d, safe.path, newContent)
  IN IF ~safe.ok THEN Done(Throw(safe.tag), d, {})
     ELSE IF rd.err # ""
          THEN Done(Outcome("soft", "not_found", command.path, 0, {}), d, {rd.path})
     ELSE IF count = 0
          THEN Done(Outcome("soft", "no_match", command.old_str, 0, {}), d, {rd.path})
     ELSE IF count > 1
          THEN Done(Outcome("soft", "many_matches", command.old_str, count, {}), d, {rd.path})
     ELSE IF wr.err # "" THEN Done(Throw(wr.err), wr.disk, {rd.path, wr.path})
     ELSE Done(Outcome("ok", "updated", command.path, 0, {}), wr.disk, {rd.path, wr.path})

\* lines.splice(at, 0, text)
SpliceIn(lines, at, text) ==
  SubSeq(lines, 1, at) \o <<text>> \o SubSeq(lines, at + 1, Len(lines))

\* insert refusing insert_line = lines.length
insertStrictUpper(d, command) ==
  LET safe == resolveSafePath(command.path)
      rd == FsReadFile(d, safe.path)
      lines == JsSplit(rd.text, <<"\n">>)
      wr == FsWriteFile(d, safe.path,
                        JsJoin(SpliceIn(lines, command.insert_line, command.insert_text),
                               <<"\n">>))
  IN IF ~safe.ok THEN Done(Throw(safe.tag), d, {})
     ELSE IF rd.err # ""
          THEN Done(Outcome("soft", "not_found", command.path, 0, {}), d, {rd.path})
     ELSE IF command.insert_line < 0 \/ command.insert_line >= Len(lines)
          THEN Done(Outcome("soft", "out_of_range", NumToStr(command.insert_line),
                            Len(lines), {}), d, {rd.path})
     ELSE IF wr.err # "" THEN Done(Throw(wr.err), wr.disk, {rd.path, wr.path})
     ELSE Done(Outcome("ok", "inserted", command.path, command.insert_line, {}),
               wr.disk, {rd.path, wr.path})

\* insert(command): command = [path, insert_line, insert_text]
insert(d, command) ==
  LET safe == resolveSafePath(command.path)
      rd == FsReadFile(d, safe.path)
      lines == JsSplit(rd.text, <<"\n">>)
      wr == FsWriteFile(d, safe.path,
                        JsJoin(SpliceIn(lines, command.insert_line, command.insert_text),
                               <<"\n">>))
  IN IF ~safe.ok THEN Done(Throw(safe.tag), d, {})
     ELSE IF rd.err # ""
          THEN Done(Outcome("soft", "not_found", command.path, 0, {}), d, {rd.path})
     ELSE IF command.insert_line < 0 \/ command.insert_line > Len(lines)
          THEN Done(Outcome("soft", "out_of_range", NumToStr(command.insert_line),
                            Len(lines), {}), d, {rd.path})
     ELSE IF wr.err # "" THEN Done(Throw(wr.err), wr.disk, {rd.path, wr.path})
     ELSE Done(Outcome("ok", "inserted", command.path, command.insert_line, {}),
               wr.disk, {rd.path, wr.path})

\* delete(command): command = [path]
delete(d, command) ==
  LET safe == resolveSafePath(command.path)
      rm == FsRm(d, safe.path)
  IN IF ~safe.ok THEN Done(Throw(safe.tag), d, {})
     ELSE IF rm.err # ""
          THEN Done(Outcome("soft", "not_found", command.path, 0, {}), d, {rm.path})
     ELSE Done(Outcome("ok", "deleted", command.path, 0, {}), rm.disk,
               {rm.path} \cup rm.gone)

\* rename without the destination test of line 224
renameOverwrite(d, command) ==
  LET oldSafe == resolveSafePath(command.old_path)
      newSafe == resolveSafePath(command.new_path)
      oldProbe == FsStat(d, oldSafe.path)
      newProbe == FsStat(d, newSafe.path)
      mv == FsRename(d, oldSafe.path, newSafe.path)
  IN IF ~oldSafe.ok THEN Done(Throw(oldSafe.tag), d, {})
     ELSE IF ~newSafe.ok THEN Done(Throw(newSafe.tag), d, {})
     ELSE IF ~ExistsSync(d, oldSafe.path)
          THEN Done(Outcome("soft", "not_found", command.old_path, 0, {}), d, {oldProbe.path})
     ELSE IF mv.err # ""
          THEN Done(Throw(mv.err), d, {oldProbe.path, newProbe.path, mv.path, mv.to})
     ELSE Done(Outcome("ok", "renamed", command.old_path \o <<"\t">> \o command.new_path, 0, {}),
               mv.disk, {oldProbe.path, newProbe.path, mv.path, mv.to} \cup mv.moved)

\* rename(command): command = [old_path, new_path]
rename(d, command) ==
  LET oldSafe == resolveSafePath(command.old_path)
      newSafe == resolveSafePath(command.new_path)
      oldProbe == FsStat(d, oldSafe.path)
      newProbe == FsStat(d, newSafe.path)
      mv == FsRename(d, oldSafe.path, newSafe.path)
  IN IF ~oldSafe.ok THEN Done(Throw(oldSafe.tag), d, {})
     ELSE IF ~newSafe.ok THEN Done(Throw(newSafe.tag), d, {})
     ELSE IF ~ExistsSync(d, oldSafe.path)
          THEN Done(Outcome("soft", "not_found", command.old_path, 0, {}), d, {oldProbe.path})
     ELSE IF ExistsSync(d, newSafe.path)
          THEN Done(Outcome("soft", "already_exists", command.new_path, 0, {}), d,
                    {oldProbe.path, newProbe.path})
     ELSE IF mv.err # ""
          THEN Done(Throw(mv.err), d, {oldProbe.path, newProbe.path, mv.path, mv.to})
     ELSE Done(Outcome("ok", "renamed", command.old_path \o <<"\t">> \o command.new_path, 0, {}),
               mv.disk, {oldProbe.path, newProbe.path, mv.path, mv.to} \cup mv.moved)

\* ------------------------------------------------------------------------
\* State
\* ------------------------------------------------------------------------

VARIABLES
  disk,         \* the file system (see above)
  fsCall,       \* the memory-handler call in progress or just returned
  opsDone,      \* number of memory-handler calls made so far
  racing,       \* per concurrent turn, its create call and how far it has run
  sessions,     \* the module-level Map: session id -> array of turns
  history,      \* per session id, every turn ever appended, in order
  appendsDone,  \* number of direct addToSession calls made so far
  turns,        \* per chat request, the state of its handler (see NoTurn)
  budget,       \* number of chunks the model may still stream in this run
  server,       \* the server process: its start-up and whether it listens
  client        \* the browser page: its React state and its response streams

fsVars == <<disk, fsCall, opsDone, racing>>
sessionVars == <<sessions, history, appendsDone>>
turnVars == <<turns, budget>>
edgeVars == <<server, client>>

\* ------------------------------------------------------------------------
\* Inputs of the memory handlers
\* ------------------------------------------------------------------------

\* number of memory-handler calls in one run
MaxOps == 2

PathAlphabet == {"/", "."}

\* every string over PathAlphabet of length at most n
RECURSIVE StringsUpTo(_, _)
StringsUpTo(alphabet, n) ==
  IF n = 0 THEN {<<>>}
  ELSE LET shorter == StringsUpTo(alphabet, n - 1)
       IN shorter \cup {Append(t, c) : t \in shorter, c \in alphabet}

\* a location outside the storage root, and a file in it
OutsideDir == <<"/", "o">>
OutsideFile == <<"/", "o", "/", "f">>

\* the logical paths handed to the handlers: '/memories' followed by every
\* short tail, and a few longer paths
LogicalPaths ==
  {VirtualRoot \o t : t \in StringsUpTo(PathAlphabet, MaxTail)}
  \cup { <<>>,
         OutsideFile,
         <<"/", "m", "e", "m">>,
         VirtualRoot \o <<"a">>,
         VirtualRoot \o <<"\\", "a">>,
         VirtualRoot \o <<"/", "a">>,
         VirtualRoot \o <<"/", ".", ".">>,
         VirtualRoot \o <<"/", "a", "/", "a">>,
         VirtualRoot \o <<"/", "l">>,
         VirtualRoot \o <<"/", "l", "/", "f">>,
         VirtualRoot \o <<"/", ".", ".", "/", ".", ".", "/", "o", "/", "f">>,
         VirtualRoot \o <<"/", ".", ".", "/", "m", "e", "m", "o", "r", "i", "e", "s", "a">> }

NoRange == [has |-> FALSE, lo |-> 0, hi |-> 0]
ViewRanges ==
  {NoRange} \cup {[has |-> TRUE, lo |-> r[1], hi |-> r[2]] :
                    r \in {<<2, -1>>, <<1, 1>>, <<2, 2>>, <<1, 2>>}}
FileTexts == {<<"a", "\n", "b">>, <<"a", "a", "a">>}
OldStrs == {<<>>, <<"a">>, <<"a", "a">>}
NewStrs == {<<"b">>, <<"$", "$">>}
InsertLines == {-1, 0, 2, 3}
InsertTexts == {<<"b">>}

\* the disk when the server starts serving: init() has made the storage
\* root; the root may hold a link that leads out of it
InitialDisk(withLink) ==
  LET base == (<<"/">> :> DirNode)
              @@ (PathDirname(MEMORY_ROOT) :> DirNode)
              @@ (MEMORY_ROOT :> DirNode)
              @@ (OutsideDir :> DirNode)
              @@ (OutsideFile :> FileNode(<<"s">>))
  IN IF withLink THEN (Child(MEMORY_ROOT, <<"l">>) :> LinkNode(OutsideDir)) @@ base
     ELSE base

Idle == [phase |-> "idle", op |-> "", paths |-> <<>>, command |-> [path |-> <<>>],
         before |-> (<<"/">> :> DirNode), res |-> Ok(""), io |-> {},
         changed |-> FALSE]

\* number of turns whose create calls run at the same time
MaxRacers == 2

RacerIds == 1..MaxRacers

\* a create call of one turn: not yet made
NoCall == [pc |-> "idle", command |-> [path |-> <<>>, file_text |-> <<>>],
           res |-> Ok("")]

NoRace == [t \in RacerIds |-> NoCall]

FsStart(withLink) ==
  /\ disk = InitialDisk(withLink)
  /\ fsCall = Idle
  /\ opsDone = 0
  /\ racing = NoRace

\* no file grows beyond the bound
WithinContentBound(d) ==
  \A q \in DOMAIN d : d[q].kind = "file" => Len(d[q].data) <= MaxContent

\* the caller invokes a handler and the handler runs to its return or throw
Invoke(op, paths, command, r) ==
  /\ fsCall.phase = "idle"
  /\ opsDone < MaxOps
  /\ WithinContentBound(r.disk)
  /\ disk' = r.disk
  /\ fsCall' = [phase |-> "returned", op |-> op, paths |-> paths,
                command |-> command, before |-> disk, res |-> r.res,
                io |-> r.io, changed |-> (r.disk # disk)]
  /\ opsDone' = opsDone + 1
  /\ UNCHANGED <<racing, sessionVars, turnVars, edgeVars>>

View ==
  \E p \in LogicalPaths, range \in ViewRanges :
    \E command \in {[path |-> p, range |-> range]} :
      Invoke("view", <<p>>, command, view(disk, command))

Create ==
  \E p \in LogicalPaths, text \in FileTexts :
    \E command \in {[path |-> p, file_text |-> text]} :
      Invoke("create", <<p>>, command, create(disk, command))

StrReplace ==
  \E p \in LogicalPaths, old \in OldStrs, new \in NewStrs :
    \E command \in {[path |-> p, old_str |-> old, new_str |-> new]} :
      Invoke("str_replace", <<p>>, command, str_replace(disk, command))

Insert ==
  \E p \in LogicalPaths, n \in InsertLines, text \in InsertTexts :
    \E command \in {[path |-> p, insert_line |-> n, insert_text |-> text]} :
      Invoke("insert", <<p>>, command, insert(disk, command))

Delete ==
  \E p \in LogicalPaths :
    \E command \in {[path |-> p]} :
      Invoke("delete", <<p>>, command, delete(disk, command))

Rename ==
  \E p \in LogicalPaths, q \in LogicalPaths :
    \E command \in {[old_path |-> p, new_path |-> q]} :
      Invoke("rename", <<p, q>>, command, rename(disk, command))

\* the caller has taken the handler's outcome
Return ==
  /\ fsCall.phase = "returned"
  /\ fsCall' = Idle
  /\ UNCHANGED <<disk, opsDone, racing, sessionVars, turnVars, edgeVars>>

\* ------------------------------------------------------------------------
\* create calls of concurrent turns
\*
\* create is an async function: resolveSafePath and existsSync run when it
\* is called, and it is suspended at await fs.mkdir and at await
\* fs.writeFile, where the handlers of other turns run.
\* ------------------------------------------------------------------------

\* the logical paths the concurrent turns name: a file in the root under two
\* spellings, a file in a directory of that name, and a refused path
RacePaths ==
  { VirtualRoot \o <<"/", "a">>,
    VirtualRoot \o <<"a">>,
    VirtualRoot \o <<"/", "a", "/", "a">>,
    <<"/", "m", "e", "m">> }

\* the call of turn t at pc, with its outcome
CallAt(t, pc, res) == [racing EXCEPT ![t].pc = pc, ![t].res = res]

\* lines 158-161: create is called and runs up to its first await
CreateCall(t) ==
  \E p \in RacePaths, text \in FileTexts :
    LET command == [path |-> p, file_text |-> text]
        safe == resolveSafePath(p)
        called == [racing EXCEPT ![t].command = command]
    IN /\ racing[t].pc = "idle"
       /\ racing' =
            IF ~safe.ok THEN [called EXCEPT ![t].pc = "thrown", ![t].res = Throw(safe.tag)]
            ELSE IF ExistsSync(disk, safe.path)
                 THEN [called EXCEPT ![t].pc = "returned",
                         ![t].res = Outcome("soft", "already_exists", p, 0, {})]
                 ELSE [called EXCEPT ![t].pc = "mkdir"]
       /\ UNCHANGED <<disk, fsCall, opsDone, sessionVars, turnVars, edgeVars>>

\* line 162: fs.mkdir of the parent directory settles
CreateMkdir(t) ==
  LET safe == resolveSafePath(racing[t].command.path)
      dirs == FsMkdirP(disk, PathDirname(safe.path))
  IN /\ racing[t].pc = "mkdir"
     /\ disk' = dirs.disk
     /\ racing' = IF dirs.err # "" THEN CallAt(t, "thrown", Throw(dirs.err))
                  ELSE CallAt(t, "write", racing[t].res)
     /\ UNCHANGED <<fsCall, opsDone, sessionVars, turnVars, edgeVars>>

\* lines 163-164: fs.writeFile settles and create returns
CreateWrite(t) ==
  LET safe == resolveSafePath(racing[t].command.path)
      wr == FsWriteFile(disk, safe.path, racing[t].command.file_text)
  IN /\ racing[t].pc = "write"
     /\ disk' = wr.disk
     /\ racing' = IF wr.err # "" THEN CallAt(t, "thrown", Throw(wr.err))
                  ELSE CallAt(t, "returned",
                              Outcome("ok", "created", racing[t].command.path, 0, {}))
     /\ UNCHANGED <<fsCall, opsDone, sessionVars, turnVars, edgeVars>>

\* ------------------------------------------------------------------------
\* The session store
\* ------------------------------------------------------------------------

\* the retention cap of addToSession
SessionCap == 50

\* number of direct addToSession calls in one run
MaxAppends == 3

SessionIds == {<<"s", "1">>, <<"s", "2">>}
Roles == {"user", "assistant"}

Turn(role, content) == [role |-> role, content |-> content]

\* getSession: the Map afterwards; the array returned is the entry of sessionId
getSession(map, sessionId) ==
  IF sessionId \in DOMAIN map THEN map ELSE (sessionId :> <<>>) @@ map

\* msgs.splice(0, n): the array without its first n elements
SpliceFront(msgs, n) == SubSeq(msgs, n + 1, Len(msgs))

addToSessionDropNewest(map, sessionId, role, content) ==
  LET had == getSession(map, sessionId)
      msgs == Append(had[sessionId], Turn(role, content))
  IN [had EXCEPT ![sessionId] =
        IF Len(msgs) > SessionCap THEN SubSeq(msgs, 1, SessionCap) ELSE msgs]

addToSessionLateTrim(map, sessionId, role, content) ==
  LET had == getSession(map, sessionId)
      msgs == Append(had[sessionId], Turn(role, content))
  IN [had EXCEPT ![sessionId] =
        IF Len(msgs) > SessionCap + 1
        THEN SpliceFront(msgs, Len(msgs) - SessionCap) ELSE msgs]

\* addToSession putting the new turn in front (unshift for push)
addToSessionUnshift(map, sessionId, role, content) ==
  LET had == getSession(map, sessionId)
      msgs == <<Turn(role, content)>> \o had[sessionId]
  IN [had EXCEPT ![sessionId] =
        IF Len(msgs) > SessionCap
        THEN SpliceFront(msgs, Len(msgs) - SessionCap) ELSE msgs]

\* addToSession: the Map afterwards
addToSession(map, sessionId, role, content) ==
  LET had == getSession(map, sessionId)
      msgs == Append(had[sessionId], Turn(role, content))
  IN [had EXCEPT ![sessionId] =
        IF Len(msgs) > SessionCap
        THEN SpliceFront(msgs, Len(msgs) - SessionCap) ELSE msgs]

\* a transcript of n turns left by earlier exchanges: user and assistant
\* turns in alternation, the i-th with the decimal numeral of i as content
EarlierTurns(n) ==
  [i \in 1..n |-> Turn(IF i % 2 = 1 THEN "user" ELSE "assistant", NatToStr(i))]

\* the store of a fresh process, or one in which s1 already holds a long
\* conversation
InitialSessions == {<<>>, <<"s", "1">> :> EarlierTurns(SessionCap - 2)}

HistoryOf(map) ==
  [sid \in SessionIds |-> IF sid \in DOMAIN map THEN map[sid] ELSE <<>>]

SessionStart(map) ==
  /\ sessions = map
  /\ history = HistoryOf(map)
  /\ appendsDone = 0

TurnContents == {<<"x">>, <<" ">>}

GetSession ==
  \E sid \in SessionIds :
    /\ sessions' = getSession(sessions, sid)
    /\ UNCHANGED <<history, appendsDone, fsVars, turnVars, edgeVars>>

AddToSession ==
  \E sid \in SessionIds, role \in Roles, content \in TurnContents :
    /\ appendsDone < MaxAppends
    /\ sessions' = addToSession(sessions, sid, role, content)
    /\ history' = [history EXCEPT ![sid] = Append(@, Turn(role, content))]
    /\ appendsDone' = appendsDone + 1
    /\ UNCHANGED <<fsVars, turnVars, edgeVars>>

\* ------------------------------------------------------------------------
\* The skill loader and the UI tools
\* ------------------------------------------------------------------------

\* path.resolve('./server/skills')
SKILLS_DIR == PathDirname(MEMORY_ROOT) \o <<"/", "s", "k", "i", "l", "l", "s">>

SkillFile == <<"S", "K", "I", "L", "L", ".", "m", "d">>

MeditationGuide ==
  <<"m", "e", "d", "i", "t", "a", "t", "i", "o", "n", "-", "g", "u", "i", "d", "e">>

\* a JavaScript value that is a string, or undefined
JsString(s) == [type |-> "string", str |-> s]
JsUndefined == [type |-> "undefined", str |-> <<>>]

\* the disk of a deployment: the skill protocol of meditation-guide is
\* provisioned, the one of mood-awareness-cards is not
WithSkills(d) ==
  (SKILLS_DIR :> DirNode)
  @@ (Child(SKILLS_DIR, MeditationGuide) :> DirNode)
  @@ (Child(Child(SKILLS_DIR, MeditationGuide), SkillFile) :> FileNode(<<"p">>))
  @@ d

\* readSkillTool.run(input): input = [skill_name]
readSkill(d, input) ==
  LET skillPath == PathNormalize(SKILLS_DIR \o <<"/">> \o input.skill_name.str
                                 \o <<"/">> \o SkillFile)
      rd == FsReadFile(d, skillPath)
  IN IF input.skill_name.type # "string" THEN Done(Throw("ERR_INVALID_ARG_TYPE"), d, {})
     ELSE IF rd.err # ""
          THEN Done(Outcome("soft", "skill_not_found", skillPath, 0, {}), d, {rd.path})
          ELSE Done(Outcome("ok", "skill", rd.text, 0, {}), d, {rd.path})

\* the acknowledgement strings returned by the UI tools
CardsShown == Ok("cards_shown")
MeditationShown == Ok("meditation_shown")

\* ------------------------------------------------------------------------
\* One chat request: the route handler of POST /api/chat, the driver
\* streamCounselorResponse and the SDK's tool runner it iterates over
\* ------------------------------------------------------------------------

\* max_iterations of the tool runner
MaxIterations == 10

\* number of chat requests in one run
MaxTurns == 1

\* number of chunks (text deltas and tool_use blocks) the model streams in
\* one run
MaxChunks == 3

TurnIds == 1..MaxTurns

Whitespace == {" ", "\n", "\t"}

\* s.trim()
RECURSIVE TrimStart(_)
TrimStart(s) == IF s # <<>> /\ s[1] \in Whitespace THEN TrimStart(Tail(s)) ELSE s

RECURSIVE TrimEnd(_)
TrimEnd(s) ==
  IF s # <<>> /\ s[Len(s)] \in Whitespace THEN TrimEnd(SubSeq(s, 1, Len(s) - 1)) ELSE s

JsTrim(s) == TrimEnd(TrimStart(s))

\* !v for a string or undefined
Falsy(v) == v.type = "undefined" \/ (v.type = "string" /\ v.str = <<>>)

NoTurn ==
  [pc |-> "idle",            \* idle, rejected, model, tools, done, error
   status |-> 0,             \* HTTP status of the response, 0 while none
   sessionId |-> <<>>,
   userMessage |-> <<>>,
   messages |-> <<>>,        \* the array handed to the tool runner
   iterationCount |-> 0,     \* inference requests issued
   toolUses |-> <<>>,        \* tool_use blocks of the response being read
   toolResults |-> <<>>,     \* results of the tools run for that response
   fullAssistantText |-> <<>>,
   stream |-> <<>>,          \* SSE frames written to res
   ended |-> FALSE,          \* res.end() was called
   calls |-> <<>>,           \* the driver's calls of addToSession and of
                             \* its callbacks, in order
   before |-> <<>>,          \* the session's transcript when the request came
   appended |-> <<>>]        \* the turns this request appended to the session

\* sendEvent(event, data): res.write; nothing is written once res has ended
sendEventFirst(r, event, data) ==
  IF r.ended THEN r
  ELSE [r EXCEPT !.stream = <<[event |-> event, data |-> data]>> \o @]

sendEvent(r, event, data) ==
  IF r.ended THEN r
  ELSE [r EXCEPT !.stream = Append(@, [event |-> event, data |-> data])]

\* the five callbacks the route hands to streamCounselorResponse
onTextDelta(r, text) == sendEvent(r, "delta", [text |-> text])

onCards(r, cardEvent) == sendEvent(r, "cards", cardEvent)

onMeditation(r, meditationEvent) == sendEvent(r, "meditation", meditationEvent)

onDone(r) == [sendEvent(r, "done", [status |-> "complete"]) EXCEPT !.ended = TRUE]

onError(r, message) == [sendEvent(r, "error", [message |-> message]) EXCEPT !.ended = TRUE]

\* the driver calling fn (data: its argument, as a record)
Called(r, fn, data) == [r EXCEPT !.calls = Append(@, [fn |-> fn, data |-> data])]

\* the driver calling addToSession for request record r
Added(r, role, content) ==
  [Called(r, "addToSession", [role |-> role, content |-> content])
     EXCEPT !.appended = Append(@, Turn(role, content))]

\* the request bodies: sessionId and message are strings or missing
BodySessionIds == {JsUndefined, JsString(<<>>), JsString(<<"s", "1">>)}
BodyMessages ==
  {JsUndefined, JsString(<<>>), JsString(<<" ">>), JsString(<<"h">>), JsString(<<" ", "h">>)}

\* what the model is taken to stream: text deltas and tool_use blocks
Deltas == {<<"H">>, <<" ">>}

ValidCards ==
  [prompt |-> <<"?">>, cards |-> <<"calm", "joy", "fear", "hope">>]
ValidMeditation ==
  [title |-> <<"b">>, guidance |-> <<"g">>, duration_minutes |-> 3,
   breathing |-> [inhale_seconds |-> 4, hold_seconds |-> 0,
                  exhale_seconds |-> 4, rest_seconds |-> 0]]

ToolUse(name, input) == [name |-> name, input |-> input]

ToolRequests ==
  { ToolUse("memory", [command |-> "create", path |-> VirtualRoot \o <<"/", "a">>,
                       file_text |-> <<"a">>]),
    ToolUse("show_mood_cards", ValidCards),
    ToolUse("show_meditation", ValidMeditation),
    ToolUse("bogus", [x |-> 0]) }

\* the tools handed to the runner, by name
ToolNames == {"memory", "read_skill", "show_mood_cards", "show_meditation"}

\* betaMemoryTool(memoryHandlers).run(input): the handler of input.command
memoryTool(d, input) ==
  CASE input.command = "view" -> view(d, input)
    [] input.command = "create" -> create(d, input)
    [] input.command = "str_replace" -> str_replace(d, input)
    [] input.command = "insert" -> insert(d, input)
    [] input.command = "delete" -> delete(d, input)
    [] input.command = "rename" -> rename(d, input)

\* a tool_result block: the returned string, or the message of what was
\* thrown with is_error set
ToolResult(outcome) ==
  [is_error |-> (outcome.kind = "throw"), tag |-> outcome.tag, text |-> outcome.text]

\* the runner running one tool_use block for request record r on disk d:
\* [turn, disk]. A tool that is not in the list, and a tool that throws,
\* yield an error result; nothing is thrown to the driver.
Answer(r, d, outcome) ==
  [turn |-> [r EXCEPT !.toolResults = Append(@, ToolResult(outcome))], disk |-> d]

\* the answer of a tool whose run gave h = [res, disk, io]
AnswerOf(r, h) == Answer(r, h.disk, h.res)

\* the runner with a show_mood_cards that acknowledges without calling back
RunToolUseSilentCards(r, d, use) ==
  IF use.name \notin ToolNames THEN Answer(r, d, Throw("tool_not_found"))
  ELSE CASE use.name = "memory" -> AnswerOf(r, memoryTool(d, use.input))
         [] use.name = "read_skill" -> AnswerOf(r, readSkill(d, use.input))
         [] use.name = "show_mood_cards" -> Answer(r, d, CardsShown)
         [] use.name = "show_meditation" ->
              Answer(onMeditation(Called(r, "onMeditation", use.input), use.input),
                     d, MeditationShown)

RunToolUse(r, d, use) ==
  IF use.name \notin ToolNames THEN Answer(r, d, Throw("tool_not_found"))
  ELSE CASE use.name = "memory" -> AnswerOf(r, memoryTool(d, use.input))
         [] use.name = "read_skill" -> AnswerOf(r, readSkill(d, use.input))
         [] use.name = "show_mood_cards" ->
              Answer(onCards(Called(r, "onCards", use.input), use.input), d, CardsShown)
         [] use.name = "show_meditation" ->
              Answer(onMeditation(Called(r, "onMeditation", use.input), use.input),
                     d, MeditationShown)

\* the runner issuing the next inference request
IssueRequest(r) ==
  [r EXCEPT !.pc = "model", !.iterationCount = @ + 1,
            !.toolUses = <<>>, !.toolResults = <<>>]

\* lines 593-598: the loop is over; [turn, sessions, history]
PostLoopAlwaysAppend(r, map, hist) ==
  LET text == r.fullAssistantText
      r2 == Added(r, "assistant", text)
      r3 == onDone(Called(r2, "onDone", [status |-> "complete"]))
  IN [turn |-> [r3 EXCEPT !.pc = "done"],
      sessions |-> addToSession(map, r.sessionId, "assistant", text),
      history |-> [hist EXCEPT ![r.sessionId] = Append(@, Turn("assistant", text))]]

PostLoopStoreTrimmed(r, map, hist) ==
  LET text == JsTrim(r.fullAssistantText)
      keep == text # <<>>
      r2 == IF keep THEN Added(r, "assistant", text) ELSE r
      r3 == onDone(Called(r2, "onDone", [status |-> "complete"]))
  IN [turn |-> [r3 EXCEPT !.pc = "done"],
      sessions |-> IF keep THEN addToSession(map, r.sessionId, "assistant", text) ELSE map,
      history |-> IF keep
                  THEN [hist EXCEPT ![r.sessionId] = Append(@, Turn("assistant", text))]
                  ELSE hist]

\* lines 593-598 with the assistant turn appended to the array as the request
\* found it when it read the transcript, and that array stored back
PostLoopFromSnapshot(r, map, hist) ==
  LET text == r.fullAssistantText
      keep == JsTrim(text) # <<>>
      r2 == IF keep THEN Added(r, "assistant", text) ELSE r
      r3 == onDone(Called(r2, "onDone", [status |-> "complete"]))
  IN [turn |-> [r3 EXCEPT !.pc = "done"],
      sessions |-> IF keep
                   THEN [map EXCEPT ![r.sessionId] =
                           Append(r.messages, Turn("assistant", text))]
                   ELSE map,
      history |-> IF keep
                  THEN [hist EXCEPT ![r.sessionId] = Append(@, Turn("assistant", text))]
                  ELSE hist]

PostLoop(r, map, hist) ==
  LET text == r.fullAssistantText
      keep == JsTrim(text) # <<>>
      r2 == IF keep THEN Added(r, "assistant", text) ELSE r
      r3 == onDone(Called(r2, "onDone", [status |-> "complete"]))
  IN [turn |-> [r3 EXCEPT !.pc = "done"],
      sessions |-> IF keep THEN addToSession(map, r.sessionId, "assistant", text) ELSE map,
      history |-> IF keep
                  THEN [hist EXCEPT ![r.sessionId] = Append(@, Turn("assistant", text))]
                  ELSE hist]

\* lines 599-601: the catch block; [turn, sessions, history]
CatchKeepPartial(r, map, hist, message) ==
  LET text == r.fullAssistantText
      r2 == Added(r, "assistant", text)
      r3 == onError(Called(r2, "onError", [message |-> message]), message)
  IN [turn |-> [r3 EXCEPT !.pc = "error"],
      sessions |-> addToSession(map, r.sessionId, "assistant", text),
      history |-> [hist EXCEPT ![r.sessionId] = Append(@, Turn("assistant", text))]]

CatchAndDone(r, map, hist, message) ==
  LET r2 == onError(Called(r, "onError", [message |-> message]), message)
      r3 == onDone(Called(r2, "onDone", [status |-> "complete"]))
  IN [turn |-> [r3 EXCEPT !.pc = "error"], sessions |-> map, history |-> hist]

Catch(r, map, hist, message) ==
  LET r2 == onError(Called(r, "onError", [message |-> message]), message)
  IN [turn |-> [r2 EXCEPT !.pc = "error"], sessions |-> map, history |-> hist]

\* lines 539-576 with the transcript read before the user turn is appended
StartTurnReadFirst(r, map, hist, sessionId, userMessage) ==
  LET had == getSession(map, sessionId)[sessionId]
      map2 == addToSession(map, sessionId, "user", userMessage)
      r2 == [Added(r, "user", userMessage)
               EXCEPT !.sessionId = sessionId, !.userMessage = userMessage,
                      !.before = had,
                      !.messages = had,
                      !.fullAssistantText = <<>>]
  IN [turn |-> IssueRequest(r2), sessions |-> map2,
      history |-> [hist EXCEPT ![sessionId] = Append(@, Turn("user", userMessage))]]

\* lines 539-576, up to the first inference request: [turn, sessions, history]
StartTurn(r, map, hist, sessionId, userMessage) ==
  LET had == getSession(map, sessionId)[sessionId]
      map2 == addToSession(map, sessionId, "user", userMessage)
      r2 == [Added(r, "user", userMessage)
               EXCEPT !.sessionId = sessionId, !.userMessage = userMessage,
                      !.before = had,
                      !.messages = getSession(map2, sessionId)[sessionId],
                      !.fullAssistantText = <<>>]
  IN [turn |-> IssueRequest(r2), sessions |-> map2,
      history |-> [hist EXCEPT ![sessionId] = Append(@, Turn("user", userMessage))]]

\* the server process: init is the outcome of FileSystemMemoryHandlers.init()
\* ("pending" until it settles), phase tells whether the process is
\* starting, listening for requests, or has exited
ServerState(phase, init) == [phase |-> phase, init |-> init]
Starting == ServerState("starting", "pending")
Listening == ServerState("listening", "ok")

\* a request can reach the route handler only while the process listens
Accepting == server.phase = "listening"

\* POST /api/chat arrives with body [sessionId, message]
SubmitNoMessageCheck(t) ==
  \E sessionId \in BodySessionIds, message \in BodyMessages :
    /\ Accepting
    /\ turns[t].pc = "idle"
    /\ \A u \in 1..(t - 1) : turns[u].pc # "idle"
    /\ IF Falsy(sessionId) \/ sessionId.type # "string"
       THEN /\ turns' = [turns EXCEPT ![t] = [@ EXCEPT !.pc = "rejected", !.status = 400]]
            /\ UNCHANGED <<sessions, history>>
       ELSE LET r == [turns[t] EXCEPT !.status = 200]
                go == StartTurn(r, sessions, history, sessionId.str, JsTrim(message.str))
            IN /\ turns' = [turns EXCEPT ![t] = go.turn]
               /\ sessions' = go.sessions
               /\ history' = go.history
    /\ UNCHANGED <<fsVars, appendsDone, budget, edgeVars>>

Submit(t) ==
  \E sessionId \in BodySessionIds, message \in BodyMessages :
    /\ Accepting
    /\ turns[t].pc = "idle"
    /\ \A u \in 1..(t - 1) : turns[u].pc # "idle"
    /\ IF \/ Falsy(sessionId) \/ sessionId.type # "string"
          \/ Falsy(message) \/ message.type # "string" \/ JsTrim(message.str) = <<>>
       THEN /\ turns' = [turns EXCEPT ![t] = [@ EXCEPT !.pc = "rejected", !.status = 400]]
            /\ UNCHANGED <<sessions, history>>
       ELSE LET r == [turns[t] EXCEPT !.status = 200]
                go == StartTurn(r, sessions, history, sessionId.str, JsTrim(message.str))
            IN /\ turns' = [turns EXCEPT ![t] = go.turn]
               /\ sessions' = go.sessions
               /\ history' = go.history
    /\ UNCHANGED <<fsVars, appendsDone, budget, edgeVars>>

\* lines 581-590: a text_delta event of the response being read
TextDelta(t, text) ==
  /\ turns[t].pc = "model"
  /\ budget > 0
  /\ LET r == [turns[t] EXCEPT !.fullAssistantText = @ \o text]
     IN turns' = [turns EXCEPT ![t] =
                    onTextDelta(Called(r, "onTextDelta", [text |-> text]), text)]
  /\ budget' = budget - 1
  /\ UNCHANGED <<fsVars, sessionVars, edgeVars>>

ModelText(t) == \E text \in Deltas : TextDelta(t, text)

\* a tool_use block of the response being read: the driver skips the event,
\* the runner will find the block in the final message
ToolUseBlock(t, use) ==
  /\ turns[t].pc = "model"
  /\ budget > 0
  /\ turns' = [turns EXCEPT ![t].toolUses = Append(@, use)]
  /\ budget' = budget - 1
  /\ UNCHANGED <<fsVars, sessionVars, edgeVars>>

ModelToolUse(t) == \E use \in ToolRequests : ToolUseBlock(t, use)

\* the response ends: with tool_use blocks the runner goes on to run the
\* tools, without any the runner is done and the driver leaves its loop
ModelEnd(t) ==
  /\ turns[t].pc = "model"
  /\ IF turns[t].toolUses # <<>>
     THEN /\ turns' = [turns EXCEPT ![t].pc = "tools"]
          /\ UNCHANGED <<sessions, history>>
     ELSE LET end == PostLoop(turns[t], sessions, history)
          IN /\ turns' = [turns EXCEPT ![t] = end.turn]
             /\ sessions' = end.sessions
             /\ history' = end.history
  /\ UNCHANGED <<fsVars, appendsDone, budget, edgeVars>>

\* the inference request fails or its stream breaks: the for-await throws
ModelFail(t) ==
  /\ turns[t].pc = "model"
  /\ LET end == Catch(turns[t], sessions, history, "inference failed")
     IN /\ turns' = [turns EXCEPT ![t] = end.turn]
        /\ sessions' = end.sessions
        /\ history' = end.history
  /\ UNCHANGED <<fsVars, appendsDone, budget, edgeVars>>

\* the runner runs the next tool_use block of the response, in block order
RunTool(t) ==
  /\ turns[t].pc = "tools"
  /\ Len(turns[t].toolResults) < Len(turns[t].toolUses)
  /\ \E ran \in {RunToolUse(turns[t], disk,
                             turns[t].toolUses[Len(turns[t].toolResults) + 1])} :
       /\ turns' = [turns EXCEPT ![t] = ran.turn]
       /\ disk' = ran.disk
  /\ UNCHANGED <<fsCall, opsDone, racing, sessionVars, budget, edgeVars>>

\* every tool has run: the runner feeds the results back with the next
\* request, unless max_iterations requests were made; then it is done
ResumeNoCap(t) ==
  /\ turns[t].pc = "tools"
  /\ Len(turns[t].toolResults) = Len(turns[t].toolUses)
  /\ turns' = [turns EXCEPT ![t] = IssueRequest(@)]
  /\ UNCHANGED <<sessions, history>>
  /\ UNCHANGED <<fsVars, appendsDone, budget, edgeVars>>

ResumeCapIsError(t) ==
  /\ turns[t].pc = "tools"
  /\ Len(turns[t].toolResults) = Len(turns[t].toolUses)
  /\ IF turns[t].iterationCount >= MaxIterations
     THEN LET end == Catch(turns[t], sessions, history, "max iterations")
          IN /\ turns' = [turns EXCEPT ![t] = end.turn]
             /\ sessions' = end.sessions
             /\ history' = end.history
     ELSE /\ turns' = [turns EXCEPT ![t] = IssueRequest(@)]
          /\ UNCHANGED <<sessions, history>>
  /\ UNCHANGED <<fsVars, appendsDone, budget, edgeVars>>

Resume(t) ==
  /\ turns[t].pc = "tools"
  /\ Len(turns[t].toolResults) = Len(turns[t].toolUses)
  /\ IF turns[t].iterationCount >= MaxIterations
     THEN LET end == PostLoop(turns[t], sessions, history)
          IN /\ turns' = [turns EXCEPT ![t] = end.turn]
             /\ sessions' = end.sessions
             /\ history' = end.history
     ELSE /\ turns' = [turns EXCEPT ![t] = IssueRequest(@)]
          /\ UNCHANGED <<sessions, history>>
  /\ UNCHANGED <<fsVars, appendsDone, budget, edgeVars>>

TurnStart ==
  /\ turns = [t \in TurnIds |-> NoTurn]
  /\ budget = MaxChunks

\* number of chunks the model streams in a run of one long request: more
\* than max_iterations, so that the model can ask for a tool in every
\* response the runner will read
MaxLoopChunks == 11

\* the one request of such a run
LoopTurn == 1

LoopText == TextDelta(LoopTurn, <<"H">>)

LoopToolUse == ToolUseBlock(LoopTurn, ToolUse("show_mood_cards", ValidCards))

LoopSubmit == Submit(LoopTurn)
LoopEnd == ModelEnd(LoopTurn)
LoopFail == ModelFail(LoopTurn)
LoopRunTool == RunTool(LoopTurn)
LoopResume == Resume(LoopTurn)

\* lines 543-546 without the map: the request is given the session's own
\* array, which addToSession pushes onto and splices
messagesLive(t) == getSession(sessions, turns[t].sessionId)[turns[t].sessionId]

\* lines 543-546, 573: the array the tool runner of request t was given, made
\* by map and so an array of its own
messages(t) == turns[t].messages

\* a chat request sent when every earlier one has been answered
SerialSubmit(t) ==
  /\ \A u \in DOMAIN turns : turns[u].pc \in {"idle", "rejected", "done", "error"}
  /\ Submit(t)

\* ------------------------------------------------------------------------
\* The page: sendMessage of App.tsx and the response streams it reads
\* ------------------------------------------------------------------------

\* number of sendMessage calls in a run of the page, and of chunks the
\* network delivers to the page in such a run
MaxStreams == 2
MaxReads == 3

StreamIds == 1..MaxStreams

\* useState<string | null>(null) and useState<CardEvent | null>(null)
Null == [set |-> FALSE]
ErrorOf(message) == [set |-> TRUE, message |-> message]
Pending(data) == [set |-> TRUE, data |-> data]

\* one call of sendMessage: pc is where it stands (idle: not called yet,
\* fetching, reading, done: the reader reported the end, stale: it left the
\* loop at line 182, failed: its catch block ran), received the chunks it
\* has taken from reader.read()
NoStream == [pc |-> "idle", received |-> <<>>]

\* the page after mount: the React state and the activeStreamId ref
NoPage ==
  [messages |-> <<>>, isLoading |-> FALSE, error |-> Null,
   pendingCards |-> Null, pendingMeditation |-> Null,
   activeStreamId |-> 0, reads |-> 0,
   streams |-> [s \in StreamIds |-> NoStream]]

\* a chat message of the page; the messages of call s carry its ids
Message(s, role, content) == [stream |-> s, role |-> role, content |-> content]

\* the data objects of the SSE frames the server writes
DeltaData == [text |-> <<"H">>]
DoneData == [status |-> "complete"]
ErrorData == [message |-> <<"b", "o", "o", "m">>]

\* what one reader.read() may deliver: the data lines of one or two frames
Chunks ==
  { <<DeltaData>>, <<ValidCards>>, <<ValidMeditation>>, <<DoneData>>, <<ErrorData>>,
    <<DeltaData, ErrorData>>, <<DeltaData, DoneData>> }

\* lines 233-242: the catch block of call s
CatchBlock(c, s, message) ==
  IF c.activeStreamId = s
  THEN [c EXCEPT !.error = ErrorOf(message),
                 !.isLoading = FALSE,
                 !.messages = SelectSeq(@, LAMBDA m :
                                ~(m.stream = s /\ m.role = "assistant" /\ m.content = <<>>))]
  ELSE c

\* the dispatch of lines 205-229 with the throw of line 228 caught on the spot
\* and dropped
DispatchSwallowing(c, s, data) ==
  LET keep(page) == [page |-> page, thrown |-> FALSE, message |-> <<>>]
  IN IF "text" \in DOMAIN data
     THEN keep([c EXCEPT !.messages =
                  [i \in 1..Len(@) |->
                     IF @[i].stream = s /\ @[i].role = "assistant"
                     THEN [@[i] EXCEPT !.content = @ \o data.text] ELSE @[i]]])
     ELSE IF "cards" \in DOMAIN data THEN keep([c EXCEPT !.pendingCards = Pending(data)])
     ELSE IF "breathing" \in DOMAIN data
          THEN keep([c EXCEPT !.pendingMeditation = Pending(data)])
     ELSE IF "status" \in DOMAIN data /\ data.status = "complete"
          THEN keep([c EXCEPT !.isLoading = FALSE])
     ELSE keep(c)

\* lines 205-229: one parsed data object is dispatched by its shape;
\* [page, thrown, message]
Dispatch(c, s, data) ==
  LET keep(page) == [page |-> page, thrown |-> FALSE, message |-> <<>>]
  IN IF "text" \in DOMAIN data
     THEN keep([c EXCEPT !.messages =
                  [i \in 1..Len(@) |->
                     IF @[i].stream = s /\ @[i].role = "assistant"
                     THEN [@[i] EXCEPT !.content = @ \o data.text] ELSE @[i]]])
     ELSE IF "cards" \in DOMAIN data THEN keep([c EXCEPT !.pendingCards = Pending(data)])
     ELSE IF "breathing" \in DOMAIN data
          THEN keep([c EXCEPT !.pendingMeditation = Pending(data)])
     ELSE IF "status" \in DOMAIN data /\ data.status = "complete"
          THEN keep([c EXCEPT !.isLoading = FALSE])
     ELSE IF "message" \in DOMAIN data
          THEN [page |-> c, thrown |-> TRUE, message |-> data.message]
     ELSE keep(c)

\* lines 192-230: the for loop over the data lines of a chunk, up to the
\* first throw; [page, thrown, message]
RECURSIVE ForLines(_, _, _)
ForLines(c, s, lines) ==
  IF lines = <<>> THEN [page |-> c, thrown |-> FALSE, message |-> <<>>]
  ELSE LET one == Dispatch(c, s, Head(lines))
       IN IF one.thrown THEN one ELSE ForLines(one.page, s, Tail(lines))

\* the page with call s at pc
At(c, s, pc) == [c EXCEPT !.streams[s].pc = pc]

\* lines 127-154: sendMessage is called. Its callers return while the
\* isLoading of the render they belong to is true, which a second click
\* before the next render still finds false.
sendMessage(c, s, userText) ==
  [At(c, s, "fetching") EXCEPT
     !.activeStreamId = s,
     !.messages = @ \o <<Message(s, "user", userText), Message(s, "assistant", <<>>)>>,
     !.isLoading = TRUE,
     !.error = Null,
     !.pendingCards = Null,
     !.pendingMeditation = Null]

\* lines 177-230 without the test of line 182
onChunkUnchecked(c, s, chunk) ==
  LET took == [c EXCEPT !.streams[s].received = Append(@, chunk)]
      ran == ForLines(took, s, chunk)
  IN IF ran.thrown THEN CatchBlock(At(ran.page, s, "failed"), s, ran.message)
     ELSE ran.page

\* lines 177-230: reader.read() of call s has delivered a chunk
onChunk(c, s, chunk) ==
  IF c.activeStreamId # s THEN At(c, s, "stale")
  ELSE LET took == [c EXCEPT !.streams[s].received = Append(@, chunk)]
           ran == ForLines(took, s, chunk)
       IN IF ran.thrown THEN CatchBlock(At(ran.page, s, "failed"), s, ran.message)
          ELSE ran.page

PageStep(c) ==
  /\ client' = c
  /\ UNCHANGED <<fsVars, sessionVars, turnVars, server>>

SendMessage ==
  \E s \in StreamIds :
    /\ client.streams[s].pc = "idle"
    /\ \A u \in 1..(s - 1) : client.streams[u].pc # "idle"
    /\ PageStep(sendMessage(client, s, <<"h">>))

\* fetch resolves with a response that is ok
FetchOk ==
  \E s \in StreamIds :
    /\ client.streams[s].pc = "fetching"
    /\ PageStep(At(client, s, "reading"))

\* fetch rejects, or resolves with a response that is not ok: lines 164-169
FetchFails ==
  \E s \in StreamIds, message \in {<<"4", "0", "0">>} :
    /\ client.streams[s].pc = "fetching"
    /\ PageStep(CatchBlock(At(client, s, "failed"), s, message))

ReadChunk ==
  \E s \in StreamIds, chunk \in Chunks :
    /\ client.streams[s].pc = "reading"
    /\ client.reads < MaxReads
    /\ PageStep(onChunk([client EXCEPT !.reads = @ + 1], s, chunk))

\* reader.read() reports the end of the body: line 179
ReadDone ==
  \E s \in StreamIds :
    /\ client.streams[s].pc = "reading"
    /\ PageStep(At(client, s, "done"))

\* reader.read() rejects: the connection broke
ReadFails ==
  \E s \in StreamIds, message \in {<<"n", "e", "t">>} :
    /\ client.streams[s].pc = "reading"
    /\ PageStep(CatchBlock(At(client, s, "failed"), s, message))

\* ------------------------------------------------------------------------
\* Server start-up: FileSystemMemoryHandlers.init().then(listen).catch(exit)
\* ------------------------------------------------------------------------

\* FileSystemMemoryHandlers.init(): fs.mkdir(MEMORY_ROOT, { recursive: true })
init(d) == FsMkdirP(d, MEMORY_ROOT)

\* disk d without the entries at and below path p
Without(d, p) == [q \in DOMAIN d \ Subtree(d, p) |-> d[q]]

\* the disks a process may start on: the storage root exists already, only
\* its parent exists, or a file sits where the parent should be
BootDisks ==
  { WithSkills(InitialDisk(FALSE)),
    Without(WithSkills(InitialDisk(FALSE)), MEMORY_ROOT),
    (PathDirname(MEMORY_ROOT) :> FileNode(<<"s">>))
      @@ Without(InitialDisk(FALSE), PathDirname(MEMORY_ROOT)) }

\* init() settling without the server waiting for it: listen is called at once
InitSettlesListening ==
  /\ server = Starting
  /\ \E made \in {init(disk)} :
       /\ disk' = made.disk
       /\ server' = ServerState("listening", IF made.err = "" THEN "ok" ELSE "failed")
  /\ UNCHANGED <<fsCall, opsDone, racing, sessionVars, turnVars, client>>

\* init() settles: the directory is there, or mkdir has rejected
InitSettles ==
  /\ server = Starting
  /\ \E made \in {init(disk)} :
       /\ disk' = made.disk
       /\ server' = ServerState("starting", IF made.err = "" THEN "ok" ELSE "failed")
  /\ UNCHANGED <<fsCall, opsDone, racing, sessionVars, turnVars, client>>

\* the then-callback: app.listen(PORT)
Listen ==
  /\ server = ServerState("starting", "ok")
  /\ server' = Listening
  /\ UNCHANGED <<fsVars, sessionVars, turnVars, client>>

\* the catch-callback: process.exit(1)
Exit ==
  /\ server = ServerState("starting", "failed")
  /\ server' = ServerState("exited", "failed")
  /\ UNCHANGED <<fsVars, sessionVars, turnVars, client>>

\* number of chunks the model streams in a run that probes the tools
MaxProbeChunks == 2

\* the one request of such a run
ProbeTurn == 1

MoodAwarenessCards ==
  <<"m", "o", "o", "d", "-", "a", "w", "a", "r", "e", "n", "e", "s", "s", "-",
    "c", "a", "r", "d", "s">>

\* tool_use blocks for the skill loader and the UI tools, with inputs that
\* follow the tools' input_schema and inputs that do not: the runner hands
\* a block's input to run() as the model wrote it. One skill name leads to
\* the memory store, where a memory call can put a file named SKILL.md.
ToolProbes ==
  { ToolUse("read_skill", [skill_name |-> JsString(MeditationGuide)]),
    ToolUse("read_skill", [skill_name |-> JsString(MoodAwarenessCards)]),
    ToolUse("read_skill", [skill_name |-> JsUndefined]),
    ToolUse("read_skill", [skill_name |-> JsString(<<".", ".", "/", "m", "e", "m", "o", "r", "i", "e", "s">>)]),
    ToolUse("memory", [command |-> "create", path |-> VirtualRoot \o <<"/">> \o SkillFile,
                       file_text |-> <<"a">>]),
    ToolUse("show_mood_cards", ValidCards),
    ToolUse("show_mood_cards", [prompt |-> <<"?">>, cards |-> <<"calm", "joy", "fear">>]),
    ToolUse("show_mood_cards", [cards |-> <<"calm", "joy", "fear", "hope">>]),
    ToolUse("show_meditation", ValidMeditation),
    ToolUse("show_meditation",
            [ValidMeditation EXCEPT !.breathing.inhale_seconds = 99]) }

ProbeSubmit == Submit(ProbeTurn)
ProbeText == TextDelta(ProbeTurn, <<"H">>)
ProbeToolUse == \E use \in ToolProbes : ToolUseBlock(ProbeTurn, use)
ProbeEnd == ModelEnd(ProbeTurn)
ProbeFail == ModelFail(ProbeTurn)
ProbeRunTool == RunTool(ProbeTurn)
ProbeResume == Resume(ProbeTurn)

\* number of chat requests that may be in flight at once in a run of
\* overlapping requests, and the chunks the model streams in such a run
MaxRequests == 2
MaxSharedChunks == 2

RequestIds == 1..MaxRequests

\* ------------------------------------------------------------------------
\* Specifications
\* ------------------------------------------------------------------------

vars == <<fsVars, sessionVars, turnVars, edgeVars>>

\* the server is up and no page is open
EdgeStart ==
  /\ server = Listening
  /\ client = NoPage

\* the memory handlers called one after the other on one disk
InitFS ==
  \E withLink \in BOOLEAN : FsStart(withLink) /\ SessionStart(<<>>) /\ TurnStart /\ EdgeStart

NextFS == View \/ Create \/ StrReplace \/ Insert \/ Delete \/ Rename \/ Return

SpecFS == InitFS /\ [][NextFS]_vars

\* getSession and addToSession called directly
InitSession ==
  \E map \in InitialSessions : SessionStart(map) /\ FsStart(FALSE) /\ TurnStart /\ EdgeStart

NextSession == GetSession \/ AddToSession

SpecSession == InitSession /\ [][NextSession]_vars

\* a freshly started server handling chat requests, possibly several at a
\* time
Init ==
  /\ SessionStart(<<>>)
  /\ EdgeStart
  /\ disk = WithSkills(InitialDisk(FALSE))
  /\ fsCall = Idle
  /\ opsDone = 0
  /\ racing = NoRace
  /\ TurnStart

Next ==
  \E t \in TurnIds :
    \/ Submit(t)
    \/ ModelText(t)
    \/ ModelToolUse(t)
    \/ ModelEnd(t)
    \/ ModelFail(t)
    \/ RunTool(t)
    \/ Resume(t)

Spec == Init /\ [][Next]_vars

\* one request whose model calls the skill loader and the UI tools
InitProbe ==
  /\ SessionStart(<<>>)
  /\ EdgeStart
  /\ disk = WithSkills(InitialDisk(FALSE))
  /\ fsCall = Idle
  /\ opsDone = 0
  /\ racing = NoRace
  /\ turns = [t \in TurnIds |-> NoTurn]
  /\ budget = MaxProbeChunks

NextProbe ==
  \/ ProbeSubmit
  \/ ProbeText
  \/ ProbeToolUse
  \/ ProbeEnd
  \/ ProbeFail
  \/ ProbeRunTool
  \/ ProbeResume

SpecProbe == InitProbe /\ [][NextProbe]_vars

\* a process starting on one of the disks, and the requests it then serves
InitBoot ==
  /\ SessionStart(<<>>)
  /\ disk \in BootDisks
  /\ fsCall = Idle
  /\ opsDone = 0
  /\ racing = NoRace
  /\ TurnStart
  /\ server = Starting
  /\ client = NoPage

NextBoot ==
  \/ InitSettles
  \/ Listen
  \/ Exit
  \/ \E t \in TurnIds :
       \/ Submit(t)
       \/ ModelText(t)
       \/ ModelToolUse(t)
       \/ ModelEnd(t)
       \/ ModelFail(t)
       \/ RunTool(t)
       \/ Resume(t)

SpecBoot == InitBoot /\ [][NextBoot]_vars

\* turns of different sessions whose models call create at the same time
InitRace ==
  /\ SessionStart(<<>>)
  /\ FsStart(FALSE)
  /\ TurnStart
  /\ EdgeStart

NextRace ==
  \E t \in RacerIds :
    \/ CreateCall(t)
    \/ CreateMkdir(t)
    \/ CreateWrite(t)

SpecRace == InitRace /\ [][NextRace]_vars

\* the page alone: the user sends messages and the network delivers
\* whatever it delivers
InitPage ==
  /\ SessionStart(<<>>)
  /\ FsStart(FALSE)
  /\ TurnStart
  /\ EdgeStart

NextPage == SendMessage \/ FetchOk \/ FetchFails \/ ReadChunk \/ ReadDone \/ ReadFails

SpecPage == InitPage /\ [][NextPage]_vars

\* the page with a network that settles what is pending: every fetch
\* resolves or rejects, and every read of a response body delivers a chunk,
\* reports the end of the body or rejects
SpecPageFair ==
  /\ InitPage
  /\ [][NextPage]_vars
  /\ WF_vars(FetchOk \/ FetchFails)
  /\ WF_vars(ReadChunk \/ ReadDone \/ ReadFails)

\* chat requests of one client sent one after the other, on a fresh server
\* or on one whose session s1 already holds a long conversation
InitSerial ==
  /\ \E map \in InitialSessions : SessionStart(map)
  /\ EdgeStart
  /\ disk = WithSkills(InitialDisk(FALSE))
  /\ fsCall = Idle
  /\ opsDone = 0
  /\ racing = NoRace
  /\ turns = [t \in RequestIds |-> NoTurn]
  /\ budget = MaxSharedChunks

NextSerial ==
  \E t \in RequestIds :
    \/ SerialSubmit(t)
    \/ ModelText(t)
    \/ ModelToolUse(t)
    \/ ModelEnd(t)
    \/ ModelFail(t)
    \/ RunTool(t)
    \/ Resume(t)

SpecSerial == InitSerial /\ [][NextSerial]_vars

\* several chat requests in flight at once, all on the session the client
\* names
InitShared ==
  /\ SessionStart(<<>>)
  /\ EdgeStart
  /\ disk = WithSkills(InitialDisk(FALSE))
  /\ fsCall = Idle
  /\ opsDone = 0
  /\ racing = NoRace
  /\ turns = [t \in RequestIds |-> NoTurn]
  /\ budget = MaxSharedChunks

NextShared ==
  \E t \in RequestIds :
    \/ Submit(t)
    \/ ModelText(t)
    \/ ModelToolUse(t)
    \/ ModelEnd(t)
    \/ ModelFail(t)
    \/ RunTool(t)
    \/ Resume(t)

SpecShared == InitShared /\ [][NextShared]_vars

\* several chat requests in flight at once on session s1, which already
\* holds a long conversation; the model streams one chunk less in such a
\* run, which still lets one request end with a reply while another is in
\* flight
InitSharedLong ==
  /\ SessionStart(<<"s", "1">> :> EarlierTurns(SessionCap - 2))
  /\ EdgeStart
  /\ disk = WithSkills(InitialDisk(FALSE))
  /\ fsCall = Idle
  /\ opsDone = 0
  /\ racing = NoRace
  /\ turns = [t \in RequestIds |-> NoTurn]
  /\ budget = MaxSharedChunks - 1

SpecSharedLong == InitSharedLong /\ [][NextShared]_vars

\* one request whose model may ask for a tool in response after response;
\* the model's stream and the tools always come to an end
InitLoop ==
  /\ SessionStart(<<>>)
  /\ EdgeStart
  /\ disk = WithSkills(InitialDisk(FALSE))
  /\ fsCall = Idle
  /\ opsDone = 0
  /\ racing = NoRace
  /\ turns = [t \in TurnIds |-> NoTurn]
  /\ budget = MaxLoopChunks

NextLoop ==
  \/ LoopSubmit
  \/ LoopText
  \/ LoopToolUse
  \/ LoopEnd
  \/ LoopFail
  \/ LoopRunTool
  \/ LoopResume

SpecLoop == InitLoop /\ [][NextLoop]_vars /\ WF_vars(NextLoop)

\* ------------------------------------------------------------------------
\* Properties of the memory handlers (checked under SpecFS)
\* ------------------------------------------------------------------------

\* the segments of the physical location a logical path denotes: what
\* follows '/memories', less one leading separator, relative to the root
DenotedSegs(p) ==
  LET rest == Slice(p, Len(VirtualRoot))
      rel == IF rest # <<>> /\ rest[1] \in {"/", "\\"} THEN Tail(rest) ELSE rest
  IN NormalizeSegs(JsSplit(MEMORY_ROOT, <<"/">>) \o JsSplit(rel, <<"/">>), <<>>)

\* a logical path the handlers must reject: it does not start with
\* '/memories', or it denotes a location that is not the root or below it
UnsafePath(p) ==
  LET rootSegs == PathSegs(MEMORY_ROOT)
      segs == DenotedSegs(p)
  IN \/ ~StartsWith(p, VirtualRoot)
     \/ Len(segs) < Len(rootSegs)
     \/ SubSeq(segs, 1, Len(rootSegs)) # rootSegs

Returned == fsCall.phase = "returned"

\* C1: a memory operation given a logical path that does not start with
\* /memories or that resolves outside the storage root (for rename: either
\* of its two paths) fails with a path-safety error, makes no file-system
\* call, and leaves the disk unchanged.
C1_PathConfinement ==
  (Returned /\ \E i \in 1..Len(fsCall.paths) : UnsafePath(fsCall.paths[i]))
  => /\ fsCall.res.kind = "throw"
     /\ fsCall.res.tag \in {"not_memories", "traversal"}
     /\ fsCall.io = {}
     /\ ~fsCall.changed

\* a rename of an existing file whose destination climbs out of the root
\* has been rejected
C1_Witness ==
  /\ Returned
  /\ fsCall.op = "rename"
  /\ ~UnsafePath(fsCall.paths[1])
  /\ resolveSafePath(fsCall.paths[1]).path \in DOMAIN disk
  /\ disk[resolveSafePath(fsCall.paths[1]).path].kind = "file"
  /\ UnsafePath(fsCall.paths[2])
  /\ fsCall.res = Throw("traversal")

\* an entry on the way to (or at) physical path p is a symbolic link
LeadsThroughLink(d, p) ==
  LET segs == PathSegs(p)
  IN \E k \in 1..Len(segs) :
       LET q == RenderAbs(SubSeq(segs, 1, k))
       IN q \in DOMAIN d /\ d[q].kind = "link"

\* C2: when an entry under the storage root is a symbolic link to a location
\* outside the root, a memory operation given a logical path through that
\* entry fails with a path-safety error and acts on no location outside the
\* root.
C2_SymlinkEscapeBlocked ==
  (Returned /\ \E i \in 1..Len(fsCall.paths) :
                 /\ ~UnsafePath(fsCall.paths[i])
                 /\ LeadsThroughLink(disk, resolveSafePath(fsCall.paths[i]).path))
  => /\ fsCall.res.kind = "throw"
     /\ \A q \in fsCall.io : IsWithin(q, MEMORY_ROOT)

\* the call that has just returned was `op` and its path passed the
\* path-safety check
SafeCall(op) ==
  /\ Returned
  /\ fsCall.op = op
  /\ resolveSafePath(fsCall.command.path).ok

\* the physical path the returned call was given
Target == resolveSafePath(fsCall.command.path).path

\* what reading the target gave when the call began
PriorRead == FsReadFile(fsCall.before, Target)

\* the returned call was `op` on a path where a readable file existed
OnExistingFile(op) == SafeCall(op) /\ PriorRead.err = ""

\* the number of positions of content at which old occurs
Occurrences(content, old) ==
  Cardinality({i \in 0..(Len(content) - Len(old)) :
                 SubSeq(content, i + 1, i + Len(old)) = old})

\* C15: str_replace on an existing file succeeds if and only if old_str
\* occurs in the content exactly once; for zero or for two or more
\* occurrences the content is unchanged and a soft error naming the
\* occurrence count is returned, for every old_str (the empty string and
\* strings whose occurrences overlap included).
C15_ReplaceUniqueness ==
  OnExistingFile("str_replace")
  => LET n == Occurrences(PriorRead.text, fsCall.command.old_str)
     IN /\ (fsCall.res.kind = "ok") <=> (n = 1)
        /\ n # 1 => /\ disk = fsCall.before
                    /\ fsCall.res.kind = "soft"
                    /\ fsCall.res.tag = IF n = 0 THEN "no_match" ELSE "many_matches"
                    /\ n > 1 => fsCall.res.num = n

\* C16: when str_replace succeeds, the persisted content is the previous
\* content with the occurrence of old_str replaced by new_str taken
\* literally, every character outside that occurrence unchanged.
C16_LiteralReplacement ==
  (OnExistingFile("str_replace") /\ fsCall.res.kind = "ok")
  => LET prior == PriorRead.text
         old == fsCall.command.old_str
     IN \E i \in 0..(Len(prior) - Len(old)) :
          /\ SubSeq(prior, i + 1, i + Len(old)) = old
          /\ FsReadFile(disk, Target).text
               = SubSeq(prior, 1, i) \o fsCall.command.new_str
                 \o SubSeq(prior, i + Len(old) + 1, Len(prior))

\* the number of lines of content: one more than its line breaks
LineCount(content) == Cardinality({i \in 1..Len(content) : content[i] = "\n"}) + 1

\* C17: insert on an existing file succeeds if and only if
\* 0 <= insert_line <= the file's line count; otherwise the content is
\* unchanged and a soft error stating the valid range is returned.
C17_InsertBounds ==
  OnExistingFile("insert")
  => LET n == fsCall.command.insert_line
         count == LineCount(PriorRead.text)
         inRange == 0 <= n /\ n <= count
     IN /\ (fsCall.res.kind = "ok") <=> inRange
        /\ ~inRange => /\ disk = fsCall.before
                       /\ fsCall.res.kind = "soft"
                       /\ fsCall.res.tag = "out_of_range"
                       /\ fsCall.res.num = count

\* an insert at the last admissible line of a file of several lines has
\* succeeded and appended a line
C17_Witness ==
  /\ OnExistingFile("insert")
  /\ LineCount(PriorRead.text) >= 2
  /\ fsCall.command.insert_line = LineCount(PriorRead.text)
  /\ fsCall.res.kind = "ok"
  /\ FsReadFile(disk, Target).text
       = PriorRead.text \o <<"\n">> \o fsCall.command.insert_text

\* nothing on the way to directory dir is a file: dir is a directory, or
\* it and possibly some of its ancestors are missing
CanHoldEntries(d, dir) ==
  LET w == Lookup(d, dir, TRUE)
  IN \/ w.err = "ENOENT"
     \/ w.err = "" /\ (w.path \in DOMAIN d => d[w.path].kind = "dir")

\* create on an occupied path is refused softly and changes nothing
CreateRefusedWhenOccupied ==
  (SafeCall("create") /\ ExistsSync(fsCall.before, Target))
  => /\ fsCall.res.kind = "soft"
     /\ fsCall.res.tag = "already_exists"
     /\ disk = fsCall.before

\* the returned create made the parent directories and wrote the text
\* without disturbing what was there
Created ==
  /\ fsCall.res.kind = "ok"
  /\ FsReadFile(disk, Target).err = ""
  /\ FsReadFile(disk, Target).text = fsCall.command.file_text
  /\ LET dir == FsStat(disk, PathDirname(Target))
     IN dir.err = "" /\ disk[dir.path].kind = "dir"
  /\ \A q \in DOMAIN fsCall.before : q \in DOMAIN disk /\ disk[q] = fsCall.before[q]

\* C18 (as stated): create on a path where a file already exists returns a
\* soft "already exists" error and leaves the content unchanged; create on
\* a free path creates the missing parent directories and writes exactly
\* the given text.
C18_CreateOnAnyFreePath ==
  /\ CreateRefusedWhenOccupied
  /\ (SafeCall("create") /\ ~ExistsSync(fsCall.before, Target)) => Created

\* C18 (amended): as above, for a free path none of whose ancestors is a
\* file.
C18_CreateOnFreePathBelowDirectories ==
  /\ CreateRefusedWhenOccupied
  /\ (/\ SafeCall("create")
      /\ ~ExistsSync(fsCall.before, Target)
      /\ CanHoldEntries(fsCall.before, PathDirname(Target))) => Created

\* a create below a directory that did not exist has succeeded
C18_Witness ==
  /\ SafeCall("create")
  /\ PathDirname(Target) \notin DOMAIN fsCall.before
  /\ Created

\* C19: delete removes the file or directory (with all descendants) at the
\* path; when nothing exists at the path it returns a soft error, not a
\* success, and leaves the file system unchanged.
C19_DeleteMissingIsSoft ==
  SafeCall("delete")
  => LET w == Lookup(fsCall.before, Target, FALSE)
         exists == w.err = "" /\ w.path \in DOMAIN fsCall.before
     IN /\ exists => /\ fsCall.res.kind = "ok"
                     /\ DOMAIN disk = {q \in DOMAIN fsCall.before : ~IsWithin(q, w.path)}
                     /\ \A q \in DOMAIN disk : disk[q] = fsCall.before[q]
        /\ ~exists => /\ fsCall.res.kind = "soft"
                      /\ disk = fsCall.before

\* the returned call was a rename both of whose paths passed the
\* path-safety check
SafeRename ==
  /\ Returned
  /\ fsCall.op = "rename"
  /\ resolveSafePath(fsCall.command.old_path).ok
  /\ resolveSafePath(fsCall.command.new_path).ok

RenameFrom == resolveSafePath(fsCall.command.old_path).path
RenameTo == resolveSafePath(fsCall.command.new_path).path

\* C20: rename returns a soft error and changes nothing when the source is
\* missing or the destination already exists; otherwise, after it returns
\* success the source path no longer exists, the destination holds exactly
\* what the source held, and every other entry is unchanged.
C20_RenameRelocates ==
  SafeRename
  => LET prior == fsCall.before
         src == Lookup(prior, RenameFrom, FALSE).path
         dst == Lookup(prior, RenameTo, FALSE).path
         Dest(q) == dst \o Slice(q, Len(src))
     IN /\ (~ExistsSync(prior, RenameFrom) \/ ExistsSync(prior, RenameTo))
           => /\ fsCall.res.kind = "soft"
              /\ fsCall.res.tag \in {"not_found", "already_exists"}
              /\ disk = prior
        /\ fsCall.res.kind = "ok"
           => /\ \A q \in DOMAIN disk : ~IsWithin(q, src)
              /\ \A q \in DOMAIN prior :
                   IF IsWithin(q, src)
                   THEN Dest(q) \in DOMAIN disk /\ disk[Dest(q)] = prior[q]
                   ELSE q \in DOMAIN disk /\ disk[q] = prior[q]
              /\ \A q \in DOMAIN disk :
                   IF IsWithin(q, dst)
                   THEN \E m \in DOMAIN prior : IsWithin(m, src) /\ Dest(m) = q
                   ELSE q \in DOMAIN prior

\* a directory holding a file has been renamed to a free path
C20_Witness ==
  /\ SafeRename
  /\ fsCall.res.kind = "ok"
  /\ LET src == Lookup(fsCall.before, RenameFrom, FALSE).path
     IN /\ fsCall.before[src].kind = "dir"
        /\ \E q \in DOMAIN fsCall.before : q # src /\ IsWithin(q, src)

\* every path given to the returned call passed the path-safety check
AllPathsSafe ==
  /\ Returned
  /\ \A i \in 1..Len(fsCall.paths) : resolveSafePath(fsCall.paths[i]).ok

\* C21: for every logical path that passes the path-safety check and every
\* file-system state, each of the six memory operations returns its outcome
\* as a string and does not raise; only the path-safety checks raise.
C21_OnlyPathSafetyRaises ==
  AllPathsSafe => fsCall.res.kind # "throw"

\* C37: the storage root init has created exists in every later state: no
\* memory operation on an accepted logical path deletes it or moves it away.
C37_RootPersists ==
  MEMORY_ROOT \in DOMAIN disk /\ disk[MEMORY_ROOT].kind = "dir"

\* lines s..e of a file, each behind its own line number right-aligned in
\* six columns and a tab, joined by line breaks (line numbers below 10)
Numbered(lines, s, e) ==
  JsJoin([i \in 1..(e - s + 1) |->
            <<" ", " ", " ", " ", " ">> \o NatToStr(s + i - 1) \o <<"\t">>
            \o lines[s + i - 1]],
         <<"\n">>)

\* C28: view of a file with view_range [s, e], 1 <= s <= e <= line count,
\* returns exactly lines s through e inclusive, each prefixed with its
\* absolute 1-indexed line number; an end value of -1 means through the
\* last line, and without a range the whole file is returned.
C28_ViewRange ==
  OnExistingFile("view")
  => LET lines == JsSplit(PriorRead.text, <<"\n">>)
         range == fsCall.command.range
         s == IF range.has THEN range.lo ELSE 1
         e == IF range.has /\ range.hi # -1 THEN range.hi ELSE Len(lines)
     IN (1 <= s /\ s <= e /\ e <= Len(lines))
        => /\ fsCall.res.kind = "ok"
           /\ fsCall.res.text = Numbered(lines, s, e)
           /\ disk = fsCall.before

\* the second line alone of a file of two lines has been shown, numbered 2
C28_Witness ==
  /\ OnExistingFile("view")
  /\ fsCall.command.range = [has |-> TRUE, lo |-> 2, hi |-> 2]
  /\ Len(JsSplit(PriorRead.text, <<"\n">>)) = 2
  /\ fsCall.res.kind = "ok"
  /\ fsCall.res.text = <<" ", " ", " ", " ", " ", "2", "\t", "b">>

\* ------------------------------------------------------------------------
\* Properties of the session store (checked under SpecSession)
\* ------------------------------------------------------------------------

\* the last n elements of msgs (all of them when there are fewer)
LastN(msgs, n) ==
  IF Len(msgs) <= n THEN msgs ELSE SubSeq(msgs, Len(msgs) - n + 1, Len(msgs))

\* C3: in every reachable state, after any sequence of addToSession calls on
\* any sessions, the transcript of every session holds at most 50 turns.
C3_TranscriptAtMostCap ==
  \A sid \in DOMAIN sessions : Len(sessions[sid]) <= SessionCap

\* more than 50 turns were appended to a session, whose transcript is full
C3_Witness ==
  \E sid \in DOMAIN sessions :
    /\ Len(history[sid]) > SessionCap
    /\ Len(sessions[sid]) = SessionCap

\* C4: once more than 50 turns have been appended to a session, its
\* transcript is exactly the last 50 turns appended, in the order they were
\* appended.
C4_KeepsLastFifty ==
  \A sid \in DOMAIN sessions :
    Len(history[sid]) > SessionCap
    => sessions[sid] = LastN(history[sid], SessionCap)

\* a transcript whose oldest turns are gone and whose newest turn is the one
\* appended last
C4_Witness ==
  \E sid \in DOMAIN sessions :
    /\ Len(history[sid]) > SessionCap
    /\ sessions[sid][1] # history[sid][1]
    /\ sessions[sid][1] = history[sid][Len(history[sid]) - SessionCap + 1]
    /\ sessions[sid][SessionCap] = history[sid][Len(history[sid])]

\* the transcript of a session, empty while the session has no entry
TranscriptOf(map, sid) == IF sid \in DOMAIN map THEN map[sid] ELSE <<>>

\* new is old, less some turns at its front, with at most one turn added
\* at its end
AppendedAndTrimmed(old, new) ==
  \/ \E n \in 0..Len(old) : new = SubSeq(old, n + 1, Len(old))
  \/ /\ new # <<>>
     /\ \E n \in 0..Len(old) :
          new = SubSeq(Append(old, new[Len(new)]), n + 1, Len(old) + 1)

\* C25: a turn is immutable once appended: a session transcript changes
\* only by appending one turn at its end and by dropping turns from its
\* front; the role and content of a retained turn never change and
\* retained turns never change their relative order.
C25_ImmutableOnceAppended ==
  [][\A sid \in SessionIds :
       AppendedAndTrimmed(TranscriptOf(sessions, sid), TranscriptOf(sessions', sid))]_vars

\* a full transcript has taken one more turn: its first turn is gone and
\* every other turn has moved up by one, unaltered
C25_Witness ==
  \E sid \in DOMAIN sessions :
    /\ Len(history[sid]) = SessionCap + 1
    /\ sessions[sid] = SubSeq(history[sid], 2, SessionCap + 1)

\* ------------------------------------------------------------------------
\* Properties of one chat request (checked under Spec)
\* ------------------------------------------------------------------------

TerminalCallbacks == {"onDone", "onError"}
TerminalEvents == {"done", "error"}

\* the driver has returned
Finished(r) == r.pc \in {"done", "error"}

\* how many of the driver's calls were calls of a function in fns
CallCount(r, fns) == Cardinality({i \in 1..Len(r.calls) : r.calls[i].fn \in fns})

\* how many frames of the stream carry an event in events
FrameCount(r, events) ==
  Cardinality({i \in 1..Len(r.stream) : r.stream[i].event \in events})

\* C5: a call of streamCounselorResponse that has returned has invoked
\* exactly one of onDone (when it succeeded) and onError (when it failed),
\* exactly once, and its stream carries exactly one done or exactly one
\* error; while it is running it has invoked neither.
C5_ExactlyOneTerminal ==
  \A t \in TurnIds :
    LET r == turns[t]
    IN /\ r.pc = "done"
          => /\ CallCount(r, {"onDone"}) = 1 /\ CallCount(r, {"onError"}) = 0
             /\ FrameCount(r, {"done"}) = 1 /\ FrameCount(r, {"error"}) = 0
       /\ r.pc = "error"
          => /\ CallCount(r, {"onError"}) = 1 /\ CallCount(r, {"onDone"}) = 0
             /\ FrameCount(r, {"error"}) = 1 /\ FrameCount(r, {"done"}) = 0
       /\ ~Finished(r)
          => CallCount(r, TerminalCallbacks) = 0 /\ FrameCount(r, TerminalEvents) = 0

\* a request has failed after a UI tool had shown its cards
C5_Witness ==
  \E t \in TurnIds :
    /\ turns[t].pc = "error"
    /\ CallCount(turns[t], {"onCards"}) = 1
    /\ turns[t].calls[Len(turns[t].calls)].fn = "onError"

\* the SSE event a callback writes
EventOf(fn) ==
  CASE fn = "onTextDelta" -> "delta"
    [] fn = "onCards" -> "cards"
    [] fn = "onMeditation" -> "meditation"
    [] fn = "onDone" -> "done"
    [] fn = "onError" -> "error"

IsCallback(call) == call.fn # "addToSession"

\* the callbacks the driver invoked, in order
Callbacks(r) == SelectSeq(r.calls, IsCallback)

\* C6: within one request the SSE frames are the events of the callbacks
\* the driver invoked, in the order it invoked them; the stream is closed
\* exactly when its last frame is done or error; no frame follows a done or
\* error frame.
C6_OrderedAndClosed ==
  \A t \in TurnIds :
    LET r == turns[t]
        cbs == Callbacks(r)
    IN /\ Len(r.stream) = Len(cbs)
       /\ \A i \in 1..Len(r.stream) :
            /\ r.stream[i].event = EventOf(cbs[i].fn)
            /\ r.stream[i].data = cbs[i].data
       /\ r.ended <=> (r.stream # <<>>
                       /\ r.stream[Len(r.stream)].event \in TerminalEvents)
       /\ \A i \in 1..(Len(r.stream) - 1) : r.stream[i].event \notin TerminalEvents

\* a closed stream of a delta, the cards of a UI tool and done
C6_Witness ==
  \E t \in TurnIds :
    /\ turns[t].ended
    /\ Len(turns[t].stream) = 3
    /\ turns[t].stream[1].event = "delta"
    /\ turns[t].stream[2].event = "cards"
    /\ turns[t].stream[3].event = "done"

\* the concatenation of the texts of the onTextDelta calls among calls
RECURSIVE DeltaText(_)
DeltaText(calls) ==
  IF calls = <<>> THEN <<>>
  ELSE (IF calls[1].fn = "onTextDelta" THEN calls[1].data.text ELSE <<>>)
       \o DeltaText(Tail(calls))

IsAssistant(turn) == turn.role = "assistant"

\* the assistant turns a request appended to its session
AssistantAppends(r) == SelectSeq(r.appended, IsAssistant)

\* the positions among the driver's calls of its addToSession calls for an
\* assistant turn
AssistantCallAt(r) ==
  {i \in 1..Len(r.calls) :
     r.calls[i].fn = "addToSession" /\ r.calls[i].data.role = "assistant"}

\* C7 as stated: every successful request appends exactly one assistant
\* turn, whose content is the concatenation of the deltas it forwarded.
C7_AlwaysOneAssistantTurn ==
  \A t \in TurnIds :
    turns[t].pc = "done"
    => AssistantAppends(turns[t]) = <<Turn("assistant", DeltaText(turns[t].calls))>>

\* C7: a successful request whose forwarded deltas concatenate to a text
\* that is not blank appends exactly one assistant turn, in its last call
\* before onDone, with that concatenation (untrimmed) as content; one whose
\* text is blank appends none; no request appends an assistant turn while
\* its loop is running.
C7_OneAssistantTurnWhenText ==
  \A t \in TurnIds :
    LET r == turns[t]
        text == DeltaText(r.calls)
    IN /\ (r.pc = "done" /\ JsTrim(text) # <<>>)
          => /\ AssistantAppends(r) = <<Turn("assistant", text)>>
             /\ AssistantCallAt(r) = {Len(r.calls) - 1}
             /\ r.calls[Len(r.calls)].fn = "onDone"
       /\ (r.pc = "done" /\ JsTrim(text) = <<>>) => AssistantAppends(r) = <<>>
       /\ r.pc \in {"model", "tools"} => AssistantAppends(r) = <<>>

\* text, then a UI tool, then more text in the next iteration; the assistant
\* turn holds both texts
C7_Witness ==
  \E t \in TurnIds :
    /\ turns[t].pc = "done"
    /\ turns[t].iterationCount = 2
    /\ [i \in 1..Len(turns[t].calls) |-> turns[t].calls[i].fn]
         = <<"addToSession", "onTextDelta", "onCards", "onTextDelta",
             "addToSession", "onDone">>
    /\ AssistantAppends(turns[t]) = <<Turn("assistant", <<"H", " ">>)>>

\* C8: a request whose loop failed, at whatever iteration, has appended no
\* assistant turn to its session.
C8_NoAssistantTurnOnFailure ==
  \A t \in TurnIds :
    turns[t].pc = "error"
    => /\ AssistantAppends(turns[t]) = <<>>
       /\ AssistantCallAt(turns[t]) = {}

\* the second inference request failed, after text was streamed and a tool
\* was run
C8_Witness ==
  \E t \in TurnIds :
    /\ turns[t].pc = "error"
    /\ turns[t].iterationCount = 2
    /\ JsTrim(turns[t].fullAssistantText) # <<>>
    /\ FrameCount(turns[t], {"delta"}) >= 1

\* C9: after a request has ended in an error, the transcript of its session
\* equals the transcript the session had when the request was submitted.
C9_ErrorLeavesTranscriptUnchanged ==
  \A t \in TurnIds :
    turns[t].pc = "error" => sessions[turns[t].sessionId] = turns[t].before

Blank(text) == JsTrim(text) = <<>>

\* C10: a request whose accumulated text is empty or all whitespace appends
\* no assistant turn, and no assistant turn of any transcript has blank
\* content.
C10_NoBlankAssistantTurn ==
  /\ \A t \in TurnIds :
       (Finished(turns[t]) /\ Blank(turns[t].fullAssistantText))
       => AssistantAppends(turns[t]) = <<>>
  /\ \A sid \in DOMAIN sessions :
       \A i \in 1..Len(sessions[sid]) :
         IsAssistant(sessions[sid][i]) => ~Blank(sessions[sid][i].content)

\* a request that streamed only whitespace and showed cards has succeeded,
\* and its session holds the user's turn alone
C10_Witness ==
  \E t \in TurnIds :
    /\ turns[t].pc = "done"
    /\ turns[t].fullAssistantText = <<" ">>
    /\ FrameCount(turns[t], {"cards"}) = 1
    /\ sessions[turns[t].sessionId] = <<Turn("user", turns[t].userMessage)>>

\* the tools of a response have all run, and one of the tool_use blocks
\* named a tool that is not among the tools handed to the runner
UnknownDispatched(r) ==
  /\ r.pc = "tools"
  /\ Len(r.toolResults) = Len(r.toolUses)
  /\ \E i \in 1..Len(r.toolUses) : r.toolUses[i].name \notin ToolNames

\* C13: when a response asked for a tool that is not in the catalog, the
\* next step of the request is its abort: no further inference request, one
\* error event, no assistant turn.
C13_UnknownToolAborts ==
  [][\A t \in TurnIds :
       (UnknownDispatched(turns[t]) /\ turns'[t] # turns[t])
       => /\ turns'[t].pc = "error"
          /\ turns'[t].iterationCount = turns[t].iterationCount
          /\ FrameCount(turns'[t], {"error"}) = 1
          /\ AssistantAppends(turns'[t]) = <<>>]_vars

\* the request was accepted: its loop was entered
Accepted(r) == r.pc \notin {"idle", "rejected"}

\* C14: a request whose sessionId or message is missing or empty is answered
\* with status 400 before the loop is entered: it makes no inference
\* request, writes no frame and calls neither addToSession nor a callback,
\* and no session exists but those of accepted requests.
C14_RejectedBeforeLoop ==
  /\ \A t \in TurnIds :
       /\ Accepted(turns[t])
          => /\ turns[t].sessionId # <<>>
             /\ turns[t].userMessage # <<>>
             /\ turns[t].status = 200
       /\ turns[t].pc = "rejected"
          => /\ turns[t].status = 400
             /\ turns[t].iterationCount = 0
             /\ turns[t].stream = <<>>
             /\ ~turns[t].ended
             /\ turns[t].calls = <<>>
             /\ turns[t].appended = <<>>
  /\ DOMAIN sessions \subseteq {turns[t].sessionId : t \in {u \in TurnIds : Accepted(turns[u])}}

\* a request was rejected and the session store is still empty
C14_Witness ==
  \E t \in TurnIds :
    /\ turns[t].pc = "rejected"
    /\ turns[t].status = 400
    /\ DOMAIN sessions = {}

\* ------------------------------------------------------------------------
\* Properties of the agent loop (checked under SpecLoop)
\* ------------------------------------------------------------------------

\* the loop of a request is running
Running(r) == r.pc \in {"model", "tools"}

\* C11: a request issues at most max_iterations = 10 inference requests, and
\* a request whose loop has started eventually ends in done or error,
\* whatever the model streams, tool requests in every response included.
C11_CapAndTermination ==
  /\ [](\A t \in TurnIds : turns[t].iterationCount <= MaxIterations)
  /\ \A t \in TurnIds : Running(turns[t]) ~> Finished(turns[t])

\* ten responses each asked for a tool, and the request is over
C11_Witness ==
  /\ turns[LoopTurn].iterationCount = MaxIterations
  /\ CallCount(turns[LoopTurn], {"onCards"}) = MaxIterations
  /\ Finished(turns[LoopTurn])

\* the loop stopped because max_iterations requests were made and the last
\* response still asked for tools
CapStopped(r) ==
  /\ Finished(r)
  /\ r.iterationCount = MaxIterations
  /\ r.toolUses # <<>>
  /\ Len(r.toolResults) = Len(r.toolUses)

\* C12: a request whose loop stopped at the iteration cap ends with done and
\* not with error, and the text streamed so far, when not blank, is the
\* assistant turn it recorded.
C12_CapEndsWithDone ==
  \A t \in TurnIds :
    CapStopped(turns[t])
    => /\ turns[t].pc = "done"
       /\ FrameCount(turns[t], {"done"}) = 1
       /\ FrameCount(turns[t], {"error"}) = 0
       /\ ~Blank(turns[t].fullAssistantText)
          => AssistantAppends(turns[t])
               = <<Turn("assistant", turns[t].fullAssistantText)>>

\* the cap stopped a request that had streamed text
C12_Witness ==
  /\ CapStopped(turns[LoopTurn])
  /\ turns[LoopTurn].fullAssistantText = <<"H">>
  /\ turns[LoopTurn].stream[Len(turns[LoopTurn].stream)].event = "done"

\* ------------------------------------------------------------------------
\* Properties of overlapping chat requests (checked under SpecShared)
\* ------------------------------------------------------------------------

\* C22: the transcript sent with a turn's inference request is the
\* session's entire retained transcript taken right after that turn's user
\* message was appended: the append happens before any inference call, the
\* transcript's last turn is that user message, and this holds also while
\* another turn on the same session is in flight.
C22_TranscriptAfterUserAppend ==
  \A t \in DOMAIN turns :
    LET r == turns[t]
        mine == Turn("user", r.userMessage)
        all == history[r.sessionId]
    IN r.iterationCount > 0
       => /\ r.calls[1] = [fn |-> "addToSession",
                           data |-> [role |-> "user", content |-> r.userMessage]]
          /\ r.messages # <<>>
          /\ r.messages[Len(r.messages)] = mine
          /\ r.messages = LastN(Append(r.before, mine), SessionCap)
          /\ \E k \in 1..Len(all) :
               all[k] = mine /\ r.messages = LastN(SubSeq(all, 1, k), SessionCap)

\* a second request was accepted on the session while the first was still
\* reading its response, and was sent both user turns
C22_Witness ==
  /\ turns[1].pc = "model"
  /\ turns[2].pc = "model"
  /\ turns[1].sessionId = turns[2].sessionId
  /\ Len(turns[1].messages) = 1
  /\ Len(turns[2].messages) = 2
  /\ turns[2].messages[2] = Turn("user", turns[2].userMessage)

\* the turns request t is to leave in the transcript of its session: its
\* user message, and its reply when it ended with text that is not blank
Owed(t) ==
  IF turns[t].pc \in {"idle", "rejected"} THEN <<>>
  ELSE <<Turn("user", turns[t].userMessage)>>
       \o (IF turns[t].pc = "done" /\ JsTrim(turns[t].fullAssistantText) # <<>>
           THEN <<Turn("assistant", turns[t].fullAssistantText)>> ELSE <<>>)

\* what requests 1..n owe to session sid, one after the other
RECURSIVE OwedUpTo(_, _)
OwedUpTo(n, sid) ==
  IF n = 0 THEN <<>>
  ELSE OwedUpTo(n - 1, sid) \o (IF turns[n].sessionId = sid THEN Owed(n) ELSE <<>>)

\* number of places of msgs that hold m
Count(msgs, m) == Cardinality({i \in DOMAIN msgs : msgs[i] = m})

\* a and b hold the same turns the same number of times
SameTurns(a, b) ==
  /\ Len(a) = Len(b)
  /\ \A i \in DOMAIN a : Count(a, a[i]) = Count(b, a[i])

\* every request has been answered
AllSettled == \A t \in DOMAIN turns : turns[t].pc \in {"idle", "rejected", "done", "error"}

\* C34: with several requests in flight on one session no append is lost:
\* once all have completed, the transcript holds every user message and every
\* reply that is not blank, each exactly once (the total within the cap).
C34_NoAppendLost ==
  \A sid \in DOMAIN sessions :
    (AllSettled /\ Len(OwedUpTo(MaxRequests, sid)) <= SessionCap)
      => SameTurns(sessions[sid], OwedUpTo(MaxRequests, sid))

\* two requests on s1 overlapped and both ended with a reply: the transcript
\* begins with the two user messages
C34_Witness ==
  /\ \A t \in DOMAIN turns :
       turns[t].pc = "done" /\ JsTrim(turns[t].fullAssistantText) # <<>>
  /\ <<"s", "1">> \in DOMAIN sessions
  /\ Len(sessions[<<"s", "1">>]) >= 4
  /\ sessions[<<"s", "1">>][1].role = "user"
  /\ sessions[<<"s", "1">>][2].role = "user"

\* ------------------------------------------------------------------------
\* Properties of the skill loader and the UI tools (checked under SpecProbe)
\* ------------------------------------------------------------------------

\* this step is the runner running a tool_use block of request t
ToolRan(t) ==
  /\ turns[t].pc = "tools"
  /\ Len(turns'[t].toolResults) = Len(turns[t].toolResults) + 1

\* the block run in such a step, and the result it was given
UseRun(t) == turns[t].toolUses[Len(turns[t].toolResults) + 1]
ResultGiven(t) == turns'[t].toolResults[Len(turns'[t].toolResults)]

\* C23: read_skill never raises and never modifies any state: it returns
\* the full text of the named skill's protocol document when the backing
\* file exists and a not-found message when it is absent.
C23_ReadSkillIsSoft ==
  [][\A t \in TurnIds :
       (ToolRan(t) /\ UseRun(t).name = "read_skill")
       => LET name == UseRun(t).input.skill_name
              file == PathNormalize(Child(Child(SKILLS_DIR, name.str), SkillFile))
          IN /\ ~ResultGiven(t).is_error
             /\ disk' = disk
             /\ sessions' = sessions
             /\ IF file \in DOMAIN disk /\ disk[file].kind = "file"
                THEN /\ ResultGiven(t).tag = "skill"
                     /\ ResultGiven(t).text = disk[file].data
                ELSE ResultGiven(t).tag = "skill_not_found"]_vars

\* C36: for every skill_name string, read_skill reads only a file inside
\* the skills directory: whenever it returns the text of a file, that file
\* lies below SKILLS_DIR.
C36_ReadSkillStaysInSkillsDir ==
  [][\A t \in TurnIds :
       (/\ ToolRan(t)
        /\ UseRun(t).name = "read_skill"
        /\ UseRun(t).input.skill_name.type = "string"
        /\ ResultGiven(t).tag = "skill")
       => \A q \in readSkill(disk, UseRun(t).input).io : IsWithin(q, SKILLS_DIR)]_vars

UiTools == {"show_mood_cards", "show_meditation"}
UiEvents == {"cards", "meditation"}

\* the event, the callback and the acknowledgement of a UI tool
UiEventOf(name) == IF name = "show_mood_cards" THEN "cards" ELSE "meditation"
UiCallbackOf(name) == IF name = "show_mood_cards" THEN "onCards" ELSE "onMeditation"
UiAckOf(name) == IF name = "show_mood_cards" THEN CardsShown ELSE MeditationShown

\* C26: each invocation of a UI-event adapter (show_mood_cards,
\* show_meditation) calls its supplied callback exactly once with the
\* invocation's payload and returns the fixed acknowledgement string, so a
\* turn emits exactly one cards/meditation event per adapter invocation and
\* none without one.
C26_OneEventPerInvocation ==
  [][\A t \in TurnIds :
       LET r == turns[t]
           r2 == turns'[t]
       IN IF ToolRan(t) /\ UseRun(t).name \in UiTools
          THEN LET name == UseRun(t).name
                   payload == UseRun(t).input
               IN /\ r2.calls = Append(r.calls, [fn |-> UiCallbackOf(name), data |-> payload])
                  /\ r2.stream = Append(r.stream, [event |-> UiEventOf(name), data |-> payload])
                  /\ ResultGiven(t) = ToolResult(UiAckOf(name))
          ELSE /\ FrameCount(r2, UiEvents) = FrameCount(r, UiEvents)
               /\ CallCount(r2, {"onCards", "onMeditation"})
                    = CallCount(r, {"onCards", "onMeditation"})]_vars

\* a request whose model asked for the mood cards and then for the
\* meditation has streamed one event for each, in that order
C26_Witness ==
  /\ Len(turns[ProbeTurn].toolResults) = 2
  /\ turns[ProbeTurn].toolUses[1].name = "show_mood_cards"
  /\ turns[ProbeTurn].toolUses[2].name = "show_meditation"
  /\ turns[ProbeTurn].stream =
       <<[event |-> "cards", data |-> turns[ProbeTurn].toolUses[1].input],
         [event |-> "meditation", data |-> turns[ProbeTurn].toolUses[2].input]>>

\* a payload that follows the input_schema of show_mood_cards: both
\* required fields, four to six cards
CardsSchema(p) ==
  /\ DOMAIN p = {"prompt", "cards"}
  /\ Len(p.cards) >= 4
  /\ Len(p.cards) <= 6

\* a payload that follows the input_schema of show_meditation: the four
\* required fields, every number within its minimum and maximum
MeditationSchema(p) ==
  /\ DOMAIN p = {"title", "guidance", "duration_minutes", "breathing"}
  /\ p.duration_minutes >= 1 /\ p.duration_minutes <= 30
  /\ DOMAIN p.breathing
       = {"inhale_seconds", "hold_seconds", "exhale_seconds", "rest_seconds"}
  /\ p.breathing.inhale_seconds >= 2 /\ p.breathing.inhale_seconds <= 10
  /\ p.breathing.hold_seconds >= 0 /\ p.breathing.hold_seconds <= 10
  /\ p.breathing.exhale_seconds >= 2 /\ p.breathing.exhale_seconds <= 10
  /\ p.breathing.rest_seconds >= 0 /\ p.breathing.rest_seconds <= 10

\* C27: a payload that violates the tool's input schema (a cards list with
\* fewer than 4 or more than 6 entries, a missing field, a breathing value
\* outside its range) is never forwarded to the callback as a cards or
\* meditation event.
C27_MalformedNeverForwarded ==
  \A t \in TurnIds :
    \A i \in 1..Len(turns[t].stream) :
      LET frame == turns[t].stream[i]
      IN /\ frame.event = "cards" => CardsSchema(frame.data)
         /\ frame.event = "meditation" => MeditationSchema(frame.data)

\* ------------------------------------------------------------------------
\* Properties of the server start-up (checked under SpecBoot)
\* ------------------------------------------------------------------------

\* C24: the storage-root initialisation completes before any turn is
\* processed: the server accepts no chat request before init has succeeded,
\* and if init fails the server never starts listening.
C24_InitBeforeAnyTurn ==
  /\ (\E t \in TurnIds : turns[t].pc # "idle") => server = Listening
  /\ server.phase = "listening" => server.init = "ok"
  /\ server.init = "failed" => \A t \in TurnIds : turns[t].pc = "idle"

\* a request is being answered by a process whose init succeeded
C24_Witness ==
  /\ server = Listening
  /\ \E t \in TurnIds : turns[t].pc = "model"
  /\ disk[MEMORY_ROOT].kind = "dir"

\* ------------------------------------------------------------------------
\* Properties of the page (checked under SpecPage)
\* ------------------------------------------------------------------------

\* the React state of the page
Ui(c) == <<c.messages, c.pendingCards, c.pendingMeditation, c.isLoading, c.error>>

\* C29: once a newer sendMessage has started, an older response stream
\* makes no further change to the UI state: none of its late deltas, cards,
\* meditation, done or error events alters messages, pendingCards,
\* pendingMeditation, isLoading or error.
C29_StaleStreamChangesNothing ==
  [][\A s \in StreamIds :
       (/\ client.streams[s].pc # "idle"
        /\ client.activeStreamId # s
        /\ client'.streams[s] # client.streams[s])
       => Ui(client') = Ui(client)]_vars

\* the first call had been told the turn was complete, a second call was
\* made, and then a late chunk reached the first call, which dropped it
C29_Witness ==
  /\ client.streams[1].pc = "stale"
  /\ client.streams[1].received = <<<<DoneData>>>>
  /\ client.activeStreamId = 2
  /\ client.isLoading
  /\ client.messages[Len(client.messages)] = Message(2, "assistant", <<>>)

\* the data objects of the chunks, in the order they were read
RECURSIVE Flatten(_)
Flatten(chunks) ==
  IF chunks = <<>> THEN <<>> ELSE Head(chunks) \o Flatten(Tail(chunks))

\* the text of the delta events among events
RECURSIVE TextOf(_)
TextOf(events) ==
  IF events = <<>> THEN <<>>
  ELSE (IF "text" \in DOMAIN Head(events) THEN Head(events).text ELSE <<>>)
       \o TextOf(Tail(events))

\* C30: an error event received on the active stream is never swallowed:
\* it ends with the error state set to the server's message, isLoading set
\* to false, and the assistant placeholder removed if it received no text.
C30_ErrorEventSurfaces ==
  \A s \in StreamIds :
    LET events == Flatten(client.streams[s].received)
        errs == {i \in 1..Len(events) : DOMAIN events[i] = {"message"}}
        first == CHOOSE i \in errs : \A j \in errs : i <= j
        text == TextOf(SubSeq(events, 1, first - 1))
        mine == {i \in 1..Len(client.messages) :
                   client.messages[i].stream = s /\ client.messages[i].role = "assistant"}
    IN (client.activeStreamId = s /\ errs # {})
       => /\ client.error = ErrorOf(events[first].message)
          /\ ~client.isLoading
          /\ IF text = <<>> THEN mine = {}
             ELSE \E i \in mine : client.messages[i].content = text

\* the active call read an error event before any text: the banner shows
\* the server's message and only the user's message is left
C30_Witness ==
  /\ client.activeStreamId = 1
  /\ client.streams[1].received = <<<<ErrorData>>>>
  /\ client.error = ErrorOf(ErrorData.message)
  /\ client.messages = <<Message(1, "user", <<"h">>)>>

\* ------------------------------------------------------------------------
\* Properties of concurrent create calls (checked under SpecRace)
\* ------------------------------------------------------------------------

\* the file a call of create is to make
RaceTarget(t) == resolveSafePath(racing[t].command.path).path

\* the call of turn t has reported success
Succeeded(t) == racing[t].pc = "returned" /\ racing[t].res.tag = "created"

\* C31: when concurrent turns call create on the same path, which did not
\* exist, at most one of the calls reports success, and the file holds what
\* the successful create wrote: no other create has overwritten it.
C31_CreateIsExclusive ==
  \A t \in RacerIds :
    Succeeded(t) =>
      /\ \A u \in RacerIds \ {t} : Succeeded(u) => RaceTarget(u) # RaceTarget(t)
      /\ RaceTarget(t) \in DOMAIN disk
      /\ disk[RaceTarget(t)] = FileNode(racing[t].command.file_text)

\* ------------------------------------------------------------------------
\* Properties of the transcript over several requests (checked under
\* SpecSerial)
\* ------------------------------------------------------------------------

\* request t has handed its message list to the tool runner
Requested(t) == turns[t].iterationCount > 0

\* C32: the message list of every inference request begins with a user turn,
\* also when the session is long enough for addToSession to drop its oldest
\* turns.
C32_TranscriptBeginsWithUser ==
  \A t \in DOMAIN turns :
    Requested(t) => turns[t].messages # <<>> /\ turns[t].messages[1].role = "user"

\* no two neighbours of msgs have the same role
Alternates(msgs) == \A i \in 1..(Len(msgs) - 1) : msgs[i].role # msgs[i + 1].role

\* C33: in every session transcript user and assistant turns alternate,
\* whatever requests succeeded, failed or produced no text before.
C33_RolesAlternate ==
  \A sid \in DOMAIN sessions : Alternates(sessions[sid])

\* ------------------------------------------------------------------------
\* Properties of overlapping requests on a long session (checked under
\* SpecSharedLong)
\* ------------------------------------------------------------------------

\* the tool runner of request t is at work
InFlight(t) == turns[t].pc \in {"model", "tools"}

\* C35: the message list a request's tool runner was given is a snapshot:
\* while the request is in flight no step changes it, whatever other
\* requests append to the session and whatever addToSession trims.
C35_MessagesAreSnapshot ==
  [][\A t \in DOMAIN turns : (InFlight(t) /\ InFlight(t)') => messages(t)' = messages(t)]_vars

\* a request is in flight and the session has moved on since it read it:
\* the transcript is full, it lost turns from the front and got a later turn
C35_Witness ==
  \E t \in DOMAIN turns :
    /\ InFlight(t)
    /\ Len(sessions[turns[t].sessionId]) = SessionCap
    /\ sessions[turns[t].sessionId][1] # messages(t)[1]
    /\ sessions[turns[t].sessionId][SessionCap] # messages(t)[Len(messages(t))]

\* ------------------------------------------------------------------------
\* Progress of the page (checked under SpecPageFair)
\* ------------------------------------------------------------------------

\* the response stream of the active call has ended: its body was read to
\* the end, or its fetch or a read failed
ActiveStreamEnded ==
  \E s \in StreamIds :
    client.activeStreamId = s /\ client.streams[s].pc \in {"done", "failed"}

\* C38: after sendMessage has set isLoading, isLoading returns to false once
\* the response stream of the active call has ended, be it with a done
\* event, with an error event or without either.
C38_LoadingEnds ==
  (client.isLoading /\ ActiveStreamEnded) ~> ~client.isLoading

====
